---- MODULE Spec2Model ----
(***************************************************************************)
(* A model of arhat-dev/tlang:                                             *)
(*   - LazyValue.GetLazyValue (lazy.go), one process per calling           *)
(*     goroutine, one action per atomic step of the method;                *)
(*   - the pull lexer of parse/lex.go, one action per state function       *)
(*     invoked by lexer.nextItem.                                          *)
(***************************************************************************)
EXTENDS Integers, Sequences, FiniteSets, TLC

VARIABLES
    \* ---- LazyValue[T] (lazy.go:35-41) and its callers ----
    initialized,   \* LazyValue.initialized (int32)
    writing,       \* LazyValue.writing (int32)
    value,         \* LazyValue.value
    called,        \* number of invocations of LazyValue.Create
    pc,            \* position of each goroutine inside GetLazyValue
    won,           \* per goroutine: result of its CompareAndSwapInt32
    result,        \* per goroutine: the value GetLazyValue returned
    \* ---- lexer (parse/lex.go:86-99) and its client ----
    input,         \* lexer.input, a sequence of bytes
    emitComment,   \* lexer.emitComment
    pos,           \* lexer.pos
    start,         \* lexer.start
    width,         \* lexer.width
    parenDepth,    \* lexer.parenDepth
    line,          \* lexer.line
    startLine,     \* lexer.startLine
    nextState,     \* lexer.nextState
    tokens,        \* the items returned by nextItem so far, in order
    extra,         \* nextItem calls made after the scan has ended
    \* ---- parser (Tree) and its client ----
    Name,          \* Tree.Name of the tree under parse
    Mode,          \* Tree.Mode, the set of its flags
    funcs,         \* the names the function table has
    tvars,         \* the variable scope stack
    rangeDepth,    \* the range-nesting counter
    stack,         \* the constructs that are open, innermost last
    Root,          \* Tree.Root of the tree handed to Parse
    treeSet,       \* the tree set shared by the parses
    perr,          \* the error of the parse, <<>> when none
    pline,         \* the source line of the action under parse
    status,        \* idle, parsing, done or failed
    lastAction,    \* the items of the action read last
    consumed,      \* source lines read so far, all parses together
    parses,        \* calls of Parse so far
    setBefore,     \* the tree set as the caller handed it to Parse
    shape          \* keyword, declaration and commands of the line read last

lazyVars == <<initialized, writing, value, called, pc, won, result>>
lexVars  == <<input, emitComment, pos, start, width, parenDepth, line,
              startLine, nextState, tokens, extra>>
parseVars == <<Name, Mode, funcs, tvars, rangeDepth, stack, Root, treeSet,
               perr, pline, status, lastAction, consumed, parses,
               setBefore, shape>>
vars     == <<lazyVars, lexVars, parseVars>>

----------------------------------------------------------------------------
(***************************************************************************)
(* LazyValue                                                               *)
(***************************************************************************)

\* number of goroutines that may call GetLazyValue on the one LazyValue
NumCallers == 3

Callers == 1 .. NumCallers

\* the zero value of T, the value Create returns (lazy_test.go:25), and a
\* partially written value (v.value = ... is a plain, non-atomic store)
zeroValue == "zero"
testdata  == "test"
tornValue == "torn"

InitLazy ==
    /\ initialized = 0
    /\ writing = 0
    /\ value = zeroValue
    /\ called = 0
    /\ pc = [p \in Callers |-> "idle"]
    /\ won = [p \in Callers |-> FALSE]
    /\ result = [p \in Callers |-> "none"]

\* a call that does not raise the counter
EnterNoCount(p) ==
    /\ pc[p] = "idle"
    /\ pc' = [pc EXCEPT ![p] = "cas"]
    /\ UNCHANGED <<initialized, writing, value, called, won, result>>
    /\ UNCHANGED <<lexVars, parseVars>>

\* lazy.go:44  atomic.AddInt32(&v.writing, 1)
Enter(p) ==
    /\ pc[p] = "idle"
    /\ writing' = writing + 1
    /\ pc' = [pc EXCEPT ![p] = "cas"]
    /\ UNCHANGED <<initialized, value, called, won, result>>
    /\ UNCHANGED <<lexVars, parseVars>>

\* a compare-and-swap that is split into a load and a store
CompareAndSwapBroken(p) ==
    /\ pc[p] = "cas"
    /\ initialized' = 1
    /\ won' = [won EXCEPT ![p] = TRUE]
    /\ pc' = [pc EXCEPT ![p] = "create"]
    /\ UNCHANGED <<writing, value, called, result>>
    /\ UNCHANGED <<lexVars, parseVars>>

\* lazy.go:46  atomic.CompareAndSwapInt32(&v.initialized, 0, 1)
CompareAndSwap(p) ==
    /\ pc[p] = "cas"
    /\ IF initialized = 0
       THEN /\ initialized' = 1
            /\ won' = [won EXCEPT ![p] = TRUE]
            /\ pc' = [pc EXCEPT ![p] = "create"]
       ELSE /\ initialized' = initialized
            /\ won' = [won EXCEPT ![p] = FALSE]
            /\ pc' = [pc EXCEPT ![p] = "decReader"]
    /\ UNCHANGED <<writing, value, called, result>>
    /\ UNCHANGED <<lexVars, parseVars>>

\* lazy.go:49  the call v.Create() begins
CreateCall(p) ==
    /\ pc[p] = "create"
    /\ called' = called + 1
    /\ pc' = [pc EXCEPT ![p] = "creating"]
    /\ UNCHANGED <<initialized, writing, value, won, result>>
    /\ UNCHANGED <<lexVars, parseVars>>

\* lazy.go:49  Create has returned; the store to v.value begins
StoreBegin(p) ==
    /\ pc[p] = "creating"
    /\ value' = tornValue
    /\ pc' = [pc EXCEPT ![p] = "storing"]
    /\ UNCHANGED <<initialized, writing, called, won, result>>
    /\ UNCHANGED <<lexVars, parseVars>>

\* lazy.go:49  the store to v.value is complete
StoreEnd(p) ==
    /\ pc[p] = "storing"
    /\ value' = testdata
    /\ pc' = [pc EXCEPT ![p] = "decWriter"]
    /\ UNCHANGED <<initialized, writing, called, won, result>>
    /\ UNCHANGED <<lexVars, parseVars>>

\* a writer that forgets to release the counter
DecWriterMissing(p) ==
    /\ pc[p] = "decWriter"
    /\ pc' = [pc EXCEPT ![p] = "ret"]
    /\ UNCHANGED <<initialized, writing, value, called, won, result>>
    /\ UNCHANGED <<lexVars, parseVars>>

\* lazy.go:51  atomic.AddInt32(&v.writing, -1) of the writer
DecWriter(p) ==
    /\ pc[p] = "decWriter"
    /\ writing' = writing - 1
    /\ pc' = [pc EXCEPT ![p] = "ret"]
    /\ UNCHANGED <<initialized, value, called, won, result>>
    /\ UNCHANGED <<lexVars, parseVars>>

\* a reader that leaves the counter raised
DecReaderMissing(p) ==
    /\ pc[p] = "decReader"
    /\ pc' = [pc EXCEPT ![p] = "spin"]
    /\ UNCHANGED <<initialized, writing, value, called, won, result>>
    /\ UNCHANGED <<lexVars, parseVars>>

\* lazy.go:53  atomic.AddInt32(&v.writing, -1) of a reader
DecReader(p) ==
    /\ pc[p] = "decReader"
    /\ writing' = writing - 1
    /\ pc' = [pc EXCEPT ![p] = "spin"]
    /\ UNCHANGED <<initialized, value, called, won, result>>
    /\ UNCHANGED <<lexVars, parseVars>>

\* a reader that does not wait for the counter
SpinLoadNoWait(p) ==
    /\ pc[p] = "spin"
    /\ pc' = [pc EXCEPT ![p] = "ret"]
    /\ UNCHANGED <<initialized, writing, value, called, won, result>>
    /\ UNCHANGED <<lexVars, parseVars>>

\* a reader that waits for the flag only, not for the counter
SpinLoadFlagOnly(p) ==
    /\ pc[p] = "spin"
    /\ pc' = [pc EXCEPT ![p] = IF initialized = 0 THEN "yield" ELSE "ret"]
    /\ UNCHANGED <<initialized, writing, value, called, won, result>>
    /\ UNCHANGED <<lexVars, parseVars>>

\* lazy.go:56  for atomic.LoadInt32(&v.writing) != 0
SpinLoad(p) ==
    /\ pc[p] = "spin"
    /\ pc' = [pc EXCEPT ![p] = IF writing # 0 THEN "yield" ELSE "ret"]
    /\ UNCHANGED <<initialized, writing, value, called, won, result>>
    /\ UNCHANGED <<lexVars, parseVars>>

\* lazy.go:57  runtime.Gosched()
Gosched(p) ==
    /\ pc[p] = "yield"
    /\ pc' = [pc EXCEPT ![p] = "spin"]
    /\ UNCHANGED <<initialized, writing, value, called, won, result>>
    /\ UNCHANGED <<lexVars, parseVars>>

\* lazy.go:61  return v.value
Return(p) ==
    /\ pc[p] = "ret"
    /\ result' = [result EXCEPT ![p] = value]
    /\ pc' = [pc EXCEPT ![p] = "done"]
    /\ UNCHANGED <<initialized, writing, value, called, won>>
    /\ UNCHANGED <<lexVars, parseVars>>

\* every step of GetLazyValue after its first
Proceed(p) ==
    \/ CompareAndSwap(p)
    \/ CreateCall(p)
    \/ StoreBegin(p)
    \/ StoreEnd(p)
    \/ DecWriter(p)
    \/ DecReader(p)
    \/ SpinLoad(p)
    \/ Gosched(p)
    \/ Return(p)

NextLazy == \E p \in Callers : Enter(p) \/ Proceed(p)

----------------------------------------------------------------------------
(***************************************************************************)
(* The lexer: bytes and character classes                                  *)
(***************************************************************************)

\* const eof = -1 (lex.go:80): the rune returned at the end of the input
eof == "eof"

SP  == " "
TAB == "\t"
CR  == "\r"
LF  == "\n"
BSL == "\\"
DQ  == "\""
SQ  == "'"
\* the backquote byte 0x60 (a TLA+ string cannot hold it) and the byte 0x01,
\* a non-printable byte
BQ  == "BQ"
SOH == "SOH"

Digit == {"0", "1", "2", "3", "4", "5", "6", "7", "8", "9"}

Letter ==
    {"a", "b", "c", "d", "e", "f", "g", "h", "i", "j", "k", "l", "m",
     "n", "o", "p", "q", "r", "s", "t", "u", "v", "w", "x", "y", "z",
     "A", "B", "C", "D", "E", "F", "G", "H", "I", "J", "K", "L", "M",
     "N", "O", "P", "Q", "R", "S", "T", "U", "V", "W", "X", "Y", "Z"}

Punct ==
    {"!", DQ, "#", "$", "%", "&", SQ, "(", ")", "*", "+", ",", "-", ".",
     "/", ":", ";", "<", "=", ">", "?", "@", "[", BSL, "]", "^", "_", BQ,
     "{", "|", "}", "~"}

\* r <= unicode.MaxASCII && unicode.IsPrint(r): the bytes 0x20 .. 0x7E
PrintableASCII == {SP} \cup Digit \cup Letter \cup Punct

\* lex.go:769-771
isAlphaNumeric(r) == r = "_" \/ r \in Letter \/ r \in Digit

\* len(l.input)
InputLen == Len(input)

\* l.input[p], for a 0-based byte offset p
At(p) == input[p + 1]

\* l.input[a:b]
Slice(a, b) == SubSeq(input, a + 1, b)

\* the rune a "for _, r = range l.input[p:]" loop sees first, eof if none
RuneAt(p) == IF p >= InputLen THEN eof ELSE At(p)

\* the lexer struct as one record
Lexer ==
    [pos |-> pos, start |-> start, width |-> width,
     parenDepth |-> parenDepth, line |-> line, startLine |-> startLine]

\* the zero value of item: what a state function returns when it has
\* nothing to report
noItem ==
    [typ |-> "itemError", pos |-> 0, val |-> <<>>, line |-> 0,
     notEmpty |-> FALSE]

\* an emit that leaves start where it was
emitKeepStart(l, t) ==
    [ret |-> [typ |-> t, pos |-> l.start, val |-> Slice(l.start, l.pos),
              line |-> l.startLine, notEmpty |-> TRUE],
     l   |-> l]

\* lex.go:135-140  returns the item and the lexer after the emit
emit(l, t) ==
    [ret |-> [typ |-> t, pos |-> l.start, val |-> Slice(l.start, l.pos),
              line |-> l.startLine, notEmpty |-> TRUE],
     l   |-> [l EXCEPT !.start = l.pos, !.startLine = l.line]]

\* lex.go:160-162  the message is kept as its format's fixed text, followed
\* by the formatted arguments
errorf(l, msg, args) ==
    [typ |-> "itemError", pos |-> l.start, val |-> <<msg>> \o args,
     line |-> l.startLine, notEmpty |-> TRUE]

\* what a state function returns: the item, the next state and the lexer
Out(l, ret, next) == [l |-> l, ret |-> ret, next |-> next]

\* return l.emit(t), next
Emit(l, t, next) == Out(emit(l, t).l, emit(l, t).ret, next)

\* an error return that leaves the state machine running
FailContinues(l, msg, args) == Out(l, errorf(l, msg, args), "lexInsideAction")

\* return l.errorf(...), nil
Fail(l, msg, args) == Out(l, errorf(l, msg, args), "nil")

\* number of LF bytes in l.input[a:b]
RECURSIVE CountLF(_, _)
CountLF(a, b) ==
    IF a >= b THEN 0
    ELSE (IF At(a) = LF THEN 1 ELSE 0) + CountLF(a + 1, b)

\* the least offset q >= p with l.input[q] not in the set, or len(l.input)
RECURSIVE RunEnd(_, _)
RunEnd(p, set) ==
    IF p < InputLen /\ At(p) \in set THEN RunEnd(p + 1, set) ELSE p

\* an atTerminator that accepts every byte
atTerminatorAny(l) == l.pos >= InputLen \/ At(l.pos) \in PrintableASCII

\* lex.go:581-592
atTerminator(l) ==
    \/ l.pos >= InputLen
    \/ At(l.pos) \in {".", ",", "|", ":", ")", "(", SP, TAB, CR, LF, ";"}

\* the least offset q >= p with l.input[q] = c, or -1: p plus
\* strings.IndexByte(l.input[p:], c)
RECURSIVE IndexFrom(_, _)
IndexFrom(p, c) ==
    IF p >= InputLen THEN -1
    ELSE IF At(p) = c THEN p ELSE IndexFrom(p + 1, c)

AlphaNumeric == Letter \cup Digit \cup {"_"}

----------------------------------------------------------------------------
(***************************************************************************)
(* The lexer: the scanners lexInsideAction calls                           *)
(***************************************************************************)

\* a table without keywords
keywordTypeNone(word) == "itemIdentifier"

\* lex.go:486-519  the item type of an identifier
keywordType(word) ==
    CASE word = <<"b", "l", "o", "c", "k">> -> "itemBlock"
      [] word = <<"b", "r", "e", "a", "k">> -> "itemBreak"
      [] word = <<"c", "o", "n", "t", "i", "n", "u", "e">> -> "itemContinue"
      [] word = <<"d", "e", "f", "i", "n", "e">> -> "itemDefine"
      [] word = <<"e", "l", "s", "e">> -> "itemElse"
      [] word = <<"e", "n", "d">> -> "itemEnd"
      [] word = <<"i", "f">> -> "itemIf"
      [] word = <<"r", "a", "n", "g", "e">> -> "itemRange"
      [] word = <<"n", "i", "l">> -> "itemNil"
      [] word = <<"t", "e", "m", "p", "l", "a", "t", "e">> -> "itemTemplate"
      [] word = <<"w", "i", "t", "h">> -> "itemWith"
      [] word = <<"t", "r", "u", "e">> -> "itemBool"
      [] word = <<"f", "a", "l", "s", "e">> -> "itemBool"
      [] OTHER -> "itemIdentifier"

\* lex.go:459-520  entered with an alphanumeric rune at l.pos
lexIdentifier(l) ==
    LET e  == RunEnd(l.pos, AlphaNumeric)
        l1 == [l EXCEPT !.pos = e, !.width = 1]
    IN  IF ~atTerminator(l1)
        THEN Fail(l1, "bad character", <<At(e)>>)
        ELSE Emit(l1, keywordType(Slice(l.pos, e)), "lexInsideAction")

\* lex.go:539-575  the . or $ has been scanned
lexFieldOrVariable(l, typ) ==
    IF atTerminator(l)
    THEN Emit(l, IF typ = "itemVariable" THEN "itemVariable" ELSE "itemDot",
              "lexInsideAction")
    ELSE LET e  == RunEnd(l.pos, AlphaNumeric)
             l1 == [l EXCEPT !.pos = e,
                             !.width = IF e = l.pos THEN 0 ELSE 1]
         IN  IF ~atTerminator(l1)
             THEN Fail(l1, "bad character", <<At(e)>>)
             ELSE Emit(l1, typ, "lexInsideAction")

\* a field scan that returns the dot alone
lexFieldDotOnly(l) == Emit(l, "itemDot", "lexInsideAction")

\* lex.go:524-526
lexField(l) == lexFieldOrVariable(l, "itemField")

\* lex.go:530-535
lexVariable(l) ==
    IF atTerminator(l)
    THEN Emit(l, "itemVariable", "lexInsideAction")
    ELSE lexFieldOrVariable(l, "itemVariable")

\* lex.go:606-626  the loop of lexChar over l.input[p:], at offset j: the
\* offset of the closing quote, or -1 for "goto ERR" and for a loop that
\* ends without hasEnd
RECURSIVE charEnd(_, _)
charEnd(p, j) ==
    IF j >= InputLen THEN -1
    ELSE CASE At(j) = BSL ->
                IF j # InputLen - 1 /\ At(j + 1) # LF
                THEN charEnd(p, j + 1) ELSE -1
           [] At(j) = LF -> -1
           [] At(j) = SQ ->
                IF j - p = 1 /\ At(p) = BSL THEN charEnd(p, j + 1) ELSE j
           [] OTHER -> charEnd(p, j + 1)

\* lex.go:596-637  the opening quote has been scanned
lexChar(l) ==
    LET e == charEnd(l.pos, l.pos)
    IN  IF e >= 0
        THEN Emit([l EXCEPT !.width = 1, !.pos = e + 1], "itemCharConstant",
                  "lexInsideAction")
        ELSE Fail(l, "unterminated character constant", <<>>)

\* lex.go:708-726  the loop of lexQuote, as charEnd
RECURSIVE quoteEnd(_, _)
quoteEnd(p, j) ==
    IF j >= InputLen THEN -1
    ELSE CASE At(j) = BSL ->
                IF j # InputLen - 1 /\ At(j + 1) # LF
                THEN quoteEnd(p, j + 1) ELSE -1
           [] At(j) = LF -> -1
           [] At(j) = DQ ->
                IF j - p # 0 /\ At(j - 1) = BSL THEN quoteEnd(p, j + 1) ELSE j
           [] OTHER -> quoteEnd(p, j + 1)

\* lex.go:699-737  the opening quote has been scanned
lexQuote(l) ==
    LET e == quoteEnd(l.pos, l.pos)
    IN  IF e >= 0
        THEN Emit([l EXCEPT !.width = 1, !.pos = e + 1], "itemString",
                  "lexInsideAction")
        ELSE Fail(l, "unterminated quoted string", <<>>)

\* lex.go:740-766  the opening quote has been scanned; the loop counts the
\* newlines it passes, also when it finds no closing quote
lexRawQuote(l) ==
    LET e == IndexFrom(l.pos, BQ)
    IN  IF e < 0
        THEN Fail([l EXCEPT !.line = @ + CountLF(l.pos, InputLen)],
                  "unterminated raw quoted string", <<>>)
        ELSE Emit([l EXCEPT !.line = @ + CountLF(l.pos, e), !.width = 1,
                            !.pos = e + 1],
                  "itemRawString", "lexInsideAction")

\* lex.go:117-123
peek(l) == RuneAt(l.pos)

\* lex.go:143-149  next, then backup unless the rune is in the set (no set
\* in use holds a newline, so l.line is as before)
accept(l, valid) ==
    IF l.pos < InputLen /\ At(l.pos) \in valid
    THEN [ok |-> TRUE, l |-> [l EXCEPT !.pos = @ + 1, !.width = 1]]
    ELSE [ok |-> FALSE,
          l |-> [l EXCEPT !.width = IF l.pos >= InputLen THEN 0 ELSE 1]]

\* lex.go:152-156
acceptRun(l, valid) ==
    LET e == RunEnd(l.pos, valid)
    IN  [l EXCEPT !.pos = e, !.width = IF e >= InputLen THEN 0 ELSE 1]

decDigits == Digit \cup {"_"}
hexDigits == Digit \cup {"a", "b", "c", "d", "e", "f",
                         "A", "B", "C", "D", "E", "F", "_"}
octDigits == {"0", "1", "2", "3", "4", "5", "6", "7", "_"}
binDigits == {"0", "1", "_"}

\* lex.go:666-675  the digit set chosen after an accepted leading "0"
prefixDigits(z) ==
    CASE peek(z) \in {"x", "X"} -> hexDigits
      [] peek(z) \in {"o", "O"} -> octDigits
      [] peek(z) \in {"b", "B"} -> binDigits
      [] OTHER -> decDigits

\* lex.go:665-675  the optional base prefix: the lexer after it and the
\* digit set
scanPrefix(l) ==
    IF accept(l, {"0"}).ok
    THEN [digits |-> prefixDigits(accept(l, {"0"}).l),
          l |-> accept(accept(l, {"0"}).l,
                       {"x", "X", "o", "O", "b", "B"}).l]
    ELSE [digits |-> decDigits, l |-> accept(l, {"0"}).l]

\* lex.go:676-679  the digits and the optional fraction
scanMantissa(p) ==
    [digits |-> p.digits,
     l |-> IF accept(acceptRun(p.l, p.digits), {"."}).ok
           THEN acceptRun(accept(acceptRun(p.l, p.digits), {"."}).l,
                          p.digits)
           ELSE accept(acceptRun(p.l, p.digits), {"."}).l]

\* lex.go:680-687  the exponent: marks is "eE" for decimal digits, "pP" for
\* hexadecimal digits, and there is none for the other digit sets
scanExponent(l, marks) ==
    IF accept(l, marks).ok
    THEN acceptRun(accept(accept(l, marks).l, {"+", "-"}).l, decDigits)
    ELSE accept(l, marks).l

\* a scan that takes no exponent
scanExponentsNone(m) == m.l

\* lex.go:680-687
scanExponents(m) ==
    CASE m.digits = decDigits -> scanExponent(m.l, {"e", "E"})
      [] m.digits = hexDigits -> scanExponent(m.l, {"p", "P"})
      [] OTHER -> m.l

\* lex.go:688-695  the optional "i", then the next rune must not be
\* alphanumeric
scanTail(l) ==
    IF isAlphaNumeric(peek(accept(l, {"i"}).l))
    THEN [ok |-> FALSE,
          l |-> [accept(l, {"i"}).l EXCEPT !.pos = @ + 1, !.width = 1]]
    ELSE [ok |-> TRUE, l |-> accept(l, {"i"}).l]

\* lex.go:661-696  returns the lexer and the boolean result
scanNumber(l) ==
    scanTail(scanExponents(scanMantissa(scanPrefix(accept(l, {"+", "-"}).l))))

\* a complex constant that may end in any byte
lexComplexAny(n2) ==
    IF ~n2.ok
    THEN Fail(n2.l, "bad number syntax", Slice(n2.l.start, n2.l.pos))
    ELSE Emit(n2.l, "itemComplex", "lexInsideAction")

\* lex.go:648-655  the second number of a complex constant has been scanned
lexComplex(n2) ==
    IF ~n2.ok \/ At(n2.l.pos - 1) # "i"
    THEN Fail(n2.l, "bad number syntax", Slice(n2.l.start, n2.l.pos))
    ELSE Emit(n2.l, "itemComplex", "lexInsideAction")

\* lex.go:644-658  the first number has been scanned
lexNumberTail(n1) ==
    IF ~n1.ok
    THEN Fail(n1.l, "bad number syntax", Slice(n1.l.start, n1.l.pos))
    ELSE IF peek(n1.l) \in {"+", "-"}
    THEN lexComplex(scanNumber(n1.l))
    ELSE Emit(n1.l, "itemNumber", "lexInsideAction")

\* lex.go:643-659
lexNumber(l) == lexNumberTail(scanNumber(l))

----------------------------------------------------------------------------
(***************************************************************************)
(* The lexer: state functions                                              *)
(***************************************************************************)

Blank == {SP, TAB, CR}

\* lex.go:399-420  the loop of lexInActionSpace over l.input[p:], at offset
\* j with hasInlineBackslash = bs after nl newlines: the values of i (as an
\* offset from p), r and emitRightDelim and the newlines counted when the
\* loop is left
RECURSIVE spaceLoop(_, _, _, _)
spaceLoop(p, j, bs, nl) ==
    IF j >= InputLen
    THEN \* the range is exhausted: i and r are the last index and rune
         [i |-> IF j = p THEN 0 ELSE j - 1 - p,
          r |-> IF j = p THEN eof ELSE At(j - 1),
          emitRightDelim |-> FALSE, nl |-> nl]
    ELSE CASE At(j) \in Blank -> spaceLoop(p, j + 1, bs, nl)
           [] At(j) = LF ->
                IF bs THEN spaceLoop(p, j + 1, FALSE, nl + 1)
                ELSE [i |-> j + 1 - p, r |-> LF, emitRightDelim |-> TRUE,
                      nl |-> nl + 1]
           [] At(j) = BSL -> spaceLoop(p, j + 1, TRUE, nl)
           [] OTHER -> [i |-> j - p, r |-> At(j), emitRightDelim |-> FALSE,
                        nl |-> nl]

\* lex.go:351-356  the case '(' of lexInsideAction
lexLeftParen(l) ==
    Out([emit([l EXCEPT !.width = 1, !.pos = @ + 1], "itemLeftParen").l
            EXCEPT !.parenDepth = @ + 1],
        emit([l EXCEPT !.width = 1, !.pos = @ + 1], "itemLeftParen").ret,
        "lexInsideAction")

\* a case ')' that does not look at the depth it reaches
lexRightParenUnchecked(l) ==
    Out([emit([l EXCEPT !.width = 1, !.pos = @ + 1], "itemRightParen").l
            EXCEPT !.parenDepth = @ - 1],
        emit([l EXCEPT !.width = 1, !.pos = @ + 1], "itemRightParen").ret,
        "lexInsideAction")

\* lex.go:357-366  the case ')' of lexInsideAction
lexRightParen(l) ==
    LET rpar == emit([l EXCEPT !.width = 1, !.pos = @ + 1], "itemRightParen")
        l1   == [rpar.l EXCEPT !.parenDepth = @ - 1]
    IN  IF l1.parenDepth < 0
        THEN Fail(l1, "unexpected right paren", <<")">>)
        ELSE Out(l1, rpar.ret, "lexInsideAction")

\* a case ';' that stays inside the action
lexSemicolonStay(l) ==
    Emit([l EXCEPT !.width = 1, !.pos = @ + 1, !.start = l.pos + 1],
         "itemRightDelim", "lexInsideAction")

\* lex.go:369-374  the case ';' of lexInsideAction
lexSemicolon(l) ==
    Emit([l EXCEPT !.width = 1, !.pos = @ + 1, !.start = l.pos + 1],
         "itemRightDelim", "lexWhitespace")

RECURSIVE lexInsideAction(_)
RECURSIVE lexInActionSpace(_)

\* lex.go:389-457
lexInActionSpace(l) ==
    LET sc == spaceLoop(l.pos, l.pos, FALSE, 0)
        l1 == [l EXCEPT !.line = @ + sc.nl, !.width = 1, !.pos = @ + sc.i]
        \* the switch on r (lex.go:425-444), but for its eof case
        l2 == CASE sc.r \in Blank -> [l1 EXCEPT !.pos = @ + 1]
                [] sc.r = ";"     -> [l1 EXCEPT !.pos = @ + 1]
                [] OTHER          -> l1
        emitRightDelim ==
            \/ sc.emitRightDelim
            \/ sc.r \in Blank \cup {LF} /\ l2.pos >= InputLen
            \/ sc.r \in {";", "#"}
    IN  IF sc.r = eof
        THEN Emit([l1 EXCEPT !.width = 0, !.start = l1.pos,
                             !.startLine = l1.line],
                  "itemEOF", "nil")
        ELSE IF emitRightDelim
        THEN Emit([l2 EXCEPT !.start = l2.pos, !.startLine = l2.line],
                  "itemRightDelim", "lexWhitespace")
        ELSE IF sc.i = 0
        THEN lexInsideAction(l2)
        ELSE Emit(l2, "itemSpace", "lexInsideAction")

\* lex.go:271-386
lexInsideAction(l) ==
    LET r    == RuneAt(l.pos)
        one  == [l EXCEPT !.width = 1, !.pos = @ + 1]
    IN  IF l.pos >= InputLen
        THEN IF l.parenDepth > 0
             THEN Fail(l, "unclosed left paren", <<>>)
             ELSE Emit(l, "itemRightDelim", "lexWhitespace")
        ELSE CASE r \in Digit -> lexNumber(l)
               [] isAlphaNumeric(r) /\ r \notin Digit -> lexIdentifier(l)
               [] r \in {SP, LF, TAB, CR} -> lexInActionSpace(l)
               [] r = "." ->
                    IF l.pos = InputLen - 1
                    THEN Emit(one, "itemDot", "lexInsideAction")
                    ELSE IF At(l.pos + 1) \notin Digit
                    THEN lexField(one)
                    ELSE lexNumber(l)
               [] r = "|" -> Emit(one, "itemPipe", "lexInsideAction")
               [] r = "=" -> Emit(one, "itemAssign", "lexInsideAction")
               [] r = ":" ->
                    IF l.pos = InputLen - 1 \/ At(l.pos + 1) # "="
                    THEN Fail(l, "expected :=", <<>>)
                    ELSE Emit([l EXCEPT !.width = 1, !.pos = @ + 2],
                              "itemDeclare", "lexInsideAction")
               [] r = DQ  -> lexQuote(one)
               [] r = BQ  -> lexRawQuote(one)
               [] r = "$" -> lexVariable(one)
               [] r = SQ  -> lexChar(one)
               [] r = "(" -> lexLeftParen(l)
               [] r = ")" -> lexRightParen(l)
               [] r \in {"+", "-"} -> lexNumber(l)
               [] r = ";" -> lexSemicolon(l)
               [] OTHER ->
                    IF r \in PrintableASCII
                    THEN Emit(one, "itemChar", "lexInActionSpace")
                    ELSE Fail(l, "unrecognized character in action", <<r>>)

\* a lexComment that counts the comment's newline only when it emits the
\* comment
lexCommentNoLine(l, ec) ==
    LET i  == IndexFrom(l.pos, LF)
        l1 == IF i < 0
              THEN [l EXCEPT !.pos = InputLen]
              ELSE [l EXCEPT !.width = 1, !.pos = i + 1,
                             !.line = IF ec THEN @ + 1 ELSE @]
        em == emit(l1, "itemComment")
    IN  IF ec
        THEN Out(em.l,
                 [em.ret EXCEPT !.pos = @ + 1, !.val = Tail(@)],
                 "lexWhitespace")
        ELSE Out([l1 EXCEPT !.start = l1.pos, !.startLine = l1.line],
                 noItem, "lexWhitespace")

\* a lexComment that does not consume the comment
lexCommentStuck(l, ec) ==
    IF ec
    THEN Out([l EXCEPT !.startLine = l.line],
             [typ |-> "itemComment", pos |-> l.start + 1, val |-> <<>>,
              line |-> l.startLine, notEmpty |-> TRUE],
             "lexWhitespace")
    ELSE Out(l, noItem, "lexWhitespace")

\* lex.go:247-268  entered with '#' at l.pos
lexComment(l, ec) ==
    LET i  == IndexFrom(l.pos, LF)
        l1 == IF i < 0
              THEN [l EXCEPT !.pos = InputLen]
              ELSE [l EXCEPT !.width = 1, !.pos = i + 1, !.line = @ + 1]
        em == emit(l1, "itemComment")
    IN  IF ec
        THEN Out(em.l,
                 [em.ret EXCEPT !.pos = @ + 1, !.val = Tail(@)],
                 "lexWhitespace")
        ELSE Out([l1 EXCEPT !.start = l1.pos, !.startLine = l1.line],
                 noItem, "lexWhitespace")

\* lex.go:204-244
lexWhitespace(l, ec) ==
    LET n  == InputLen - l.pos           \* len(data)
        e  == RunEnd(l.pos, Blank \cup {LF})
        \* i and r when the loop is left: at the first rune that is no
        \* whitespace, or else at the last rune of data
        i  == IF n = 0 THEN 0 ELSE IF e < InputLen THEN e - l.pos ELSE n - 1
        r  == IF n = 0 THEN eof ELSE At(l.pos + i)
        l1 == [l EXCEPT !.line = @ + CountLF(l.pos, e)]
        l2 == IF r = eof THEN [l1 EXCEPT !.width = 0]
              ELSE IF i # 0 THEN [l1 EXCEPT !.pos = @ + i, !.width = 1]
              ELSE l1
        l3 == [l2 EXCEPT !.start = l2.pos, !.startLine = l2.line]
    IN  CASE r \in {SP, CR, TAB, LF, eof} -> Emit(l3, "itemEOF", "nil")
          [] r = "#" -> lexComment(l3, ec)
          [] OTHER -> Emit(l3, "itemLeftDelim", "lexInsideAction")

----------------------------------------------------------------------------
(***************************************************************************)
(* The parser: its state before a parse                                    *)
(***************************************************************************)

\* the scope stack of a tree whose parse starts: the bare $ is always
\* defined
startVars == <<<<"$">>>>

\* the parser before the first Parse: nothing is parsed, the tree set
\* handed to the parses is empty
InitParser ==
    /\ Name = <<>>
    /\ Mode = {}
    /\ funcs = {}
    /\ tvars = startVars
    /\ rangeDepth = 0
    /\ stack = <<>>
    /\ Root = <<>>
    /\ treeSet = <<>>
    /\ perr = <<>>
    /\ pline = 0
    /\ status = "idle"
    /\ lastAction = <<>>
    /\ consumed = 0
    /\ parses = 0
    /\ setBefore = <<>>
    /\ shape = <<>>

----------------------------------------------------------------------------
(***************************************************************************)
(* The lexer: construction and nextItem                                    *)
(***************************************************************************)

\* longest input scanned
MaxLen == 4

\* most nextItem calls made after the scan has ended
MaxExtra == 2

\* the bytes the inputs are built from
Alphabet == {"a", "(", ")", SP, LF, ";", "#", BSL, ",", "|", DQ}

\* the sequences over S of length at most n
SeqsUpTo(S, n) == UNION {[1 .. k -> S] : k \in 0 .. n}

\* lex.go:187-198  lex(name, input, emitComment)
lex(inp, ec) ==
    /\ input = inp
    /\ emitComment = ec
    /\ pos = 0
    /\ start = 0
    /\ width = 0
    /\ parenDepth = 0
    /\ line = 1
    /\ startLine = 1
    /\ nextState = "lexWhitespace"
    /\ tokens = <<>>
    /\ extra = 0

\* a loop of nextItem that returns every item a state function returns
loopTurnReturnsAll(o) ==
    /\ pos' = o.l.pos
    /\ start' = o.l.start
    /\ width' = o.l.width
    /\ parenDepth' = o.l.parenDepth
    /\ line' = o.l.line
    /\ startLine' = o.l.startLine
    /\ nextState' = o.next
    /\ tokens' = Append(tokens, o.ret)
    /\ UNCHANGED <<input, emitComment, extra>>
    /\ UNCHANGED <<lazyVars, parseVars>>

\* lex.go:167-177  one turn of the loop of nextItem: the state function has
\* returned o; the item is returned to the client when it is the last one or
\* a meaningful one
loopTurn(o) ==
    /\ pos' = o.l.pos
    /\ start' = o.l.start
    /\ width' = o.l.width
    /\ parenDepth' = o.l.parenDepth
    /\ line' = o.l.line
    /\ startLine' = o.l.startLine
    /\ nextState' = o.next
    /\ tokens' = IF o.next = "nil" \/ o.ret.notEmpty
                 THEN Append(tokens, o.ret) ELSE tokens
    /\ UNCHANGED <<input, emitComment, extra>>
    /\ UNCHANGED <<lazyVars, parseVars>>

\* lex.go:168 with l.nextState = lexWhitespace
RunLexWhitespace ==
    /\ nextState = "lexWhitespace"
    /\ loopTurn(lexWhitespace(Lexer, emitComment))

\* lex.go:168 with l.nextState = lexInsideAction
RunLexInsideAction ==
    /\ nextState = "lexInsideAction"
    /\ loopTurn(lexInsideAction(Lexer))

\* lex.go:168 with l.nextState = lexInActionSpace
RunLexInActionSpace ==
    /\ nextState = "lexInActionSpace"
    /\ loopTurn(lexInActionSpace(Lexer))

\* lex.go:167,182-183  nextItem called with l.nextState = nil
FakeEOF ==
    /\ nextState = "nil"
    /\ extra < MaxExtra
    /\ extra' = extra + 1
    /\ tokens' = Append(tokens, emit(Lexer, "itemEOF").ret)
    /\ start' = pos
    /\ startLine' = line
    /\ UNCHANGED <<input, emitComment, pos, width, parenDepth, line,
                   nextState>>
    /\ UNCHANGED <<lazyVars, parseVars>>

NextLex ==
    \/ RunLexWhitespace
    \/ RunLexInsideAction
    \/ RunLexInActionSpace
    \/ FakeEOF

\* the lexer over every input of the alphabet; no goroutine calls the
\* LazyValue
Init ==
    /\ \E inp \in SeqsUpTo(Alphabet, MaxLen), ec \in BOOLEAN : lex(inp, ec)
    /\ InitLazy
    /\ InitParser

Spec == Init /\ [][NextLex]_vars

\* longest input of names, numbers and signs scanned
MaxArgLen == 5

\* the bytes of variables, fields, identifiers, numbers and signs
ArgAlphabet == {"x", "$", ".", "+", "2", SP, "#"}

\* the lexer over every input of that alphabet
InitArgs ==
    /\ \E inp \in SeqsUpTo(ArgAlphabet, MaxArgLen), ec \in BOOLEAN :
           lex(inp, ec)
    /\ InitLazy
    /\ InitParser

SpecArgs == InitArgs /\ [][NextLex]_vars

\* one turn of the loop of nextItem, whatever the state
ScanStep == RunLexWhitespace \/ RunLexInsideAction \/ RunLexInActionSpace

\* the callers of one LazyValue; the lexer is left as constructed
InitLazyOnly ==
    /\ InitLazy
    /\ lex(<<>>, FALSE)
    /\ InitParser

SpecLazy == InitLazyOnly /\ [][NextLazy]_vars

\* every goroutine that has entered GetLazyValue keeps being scheduled
SpecLazyFair ==
    /\ SpecLazy
    /\ \A p \in Callers : WF_vars(Proceed(p))

----------------------------------------------------------------------------
(***************************************************************************)
(* The lexer run to its end in one go, as the tests run it                 *)
(***************************************************************************)

\* lex.go:168  ret, l.nextState = l.nextState(l), for the state named st
callState(l, st, ec) ==
    CASE st = "lexWhitespace"    -> lexWhitespace(l, ec)
      [] st = "lexInsideAction"  -> lexInsideAction(l)
      [] st = "lexInActionSpace" -> lexInActionSpace(l)

\* lex_test.go:404-410 over lex.go:167-177  the items nextItem returns
\* until the first EOF or ERROR, appended to acc: o is what the state
\* function just called has returned
RECURSIVE collectLoop(_, _, _)
collectLoop(o, ec, acc) ==
    IF o.next = "nil" THEN Append(acc, o.ret)
    ELSE IF o.ret.notEmpty /\ o.ret.typ \in {"itemEOF", "itemError"}
    THEN Append(acc, o.ret)
    ELSE collectLoop(callState(o.l, o.next, ec), ec,
                     IF o.ret.notEmpty THEN Append(acc, o.ret) ELSE acc)

\* lex_test.go:402-412  collect, for the input of the lexer and the
\* emitComment flag ec
collect(ec) ==
    collectLoop(callState([pos |-> 0, start |-> 0, width |-> 0,
                           parenDepth |-> 0, line |-> 1, startLine |-> 1],
                          "lexWhitespace", ec),
                ec, <<>>)

----------------------------------------------------------------------------
(***************************************************************************)
(* The parser: terms, operands, commands and pipelines of one action      *)
(*                                                                         *)
(* The parser reads the items of the lexer one action at a time.  Its      *)
(* position inside the items of the action under parse is the record      *)
(*   [toks, i, vars, err]                                                  *)
(* toks the items of the action, i the index of the next item, vars the    *)
(* variable scope stack, err the error raised (<<>> when none).  A parse   *)
(* function returns [p, node]: the position reached and the node built.   *)
(***************************************************************************)

\* an item as the parser reads it: its type and its text
I(typ, val) == [typ |-> typ, val |-> val]

\* no node: what term returns when the next item starts no term
NoNode == [typ |-> "none"]

Res(p, node) == [p |-> p, node |-> node]

\* the item at index i of toks; past the last one the lexer reports EOF
peekAt(toks, i) == IF i <= Len(toks) THEN toks[i] ELSE I("itemEOF", <<>>)

\* t.peek()
peekTok(p) == peekAt(p.toks, p.i)

\* t.next(): the position after the next item
adv(p) == [p EXCEPT !.i = p.i + 1]

\* the position at the next item that is not a space
RECURSIVE skipSpace(_)
skipSpace(p) ==
    IF peekTok(p).typ = "itemSpace" THEN skipSpace(adv(p)) ELSE p

\* t.peekNonSpace()
peekNonSpace(p) == peekTok(skipSpace(p))

\* t.errorf: the first error aborts the parse
t_errorf(p, msg) == [p EXCEPT !.err = msg]

\* t.unexpected(token, context): an ERROR item of the lexer surfaces with
\* its own message
unexpected(p, token, context) ==
    IF token.typ = "itemError" THEN t_errorf(p, token.val)
    ELSE IF token.typ = "itemEOF" THEN t_errorf(p, <<"unexpected EOF">>)
    ELSE t_errorf(p, <<"unexpected", token.val, context>>)

\* the function table handed to Parse: builtins of parse_test.go:326-332
builtins == {<<"p", "r", "i", "n", "t", "f">>,
             <<"c", "o", "n", "t", "a", "i", "n", "s">>}

\* TemplateFuncs.Has (types.go:8, parse_test.go:320-322, funcs.go:32-34)
Has(fn, nm) == nm \in fn

\* the identifier is checked against the function table unless the mode
\* has SkipFuncCheck
checkFuncAlways(md) == TRUE

checkFunc(md) == "SkipFuncCheck" \notin md

\* a sequence of decimal digits, possibly with underscores
isDigits(s) ==
    /\ s # <<>>
    /\ \A k \in DOMAIN s : s[k] \in Digit \cup {"_"}
    /\ \E k \in DOMAIN s : s[k] \in Digit

\* the text after an optional sign
unsigned(s) ==
    IF s # <<>> /\ s[1] \in {"+", "-"} THEN SubSeq(s, 2, Len(s)) ELSE s

\* the index of the first byte of s in set, Len(s) + 1 if none
RECURSIVE indexIn(_, _, _)
indexIn(s, set, k) ==
    IF k > Len(s) THEN k
    ELSE IF s[k] \in set THEN k ELSE indexIn(s, set, k + 1)

\* a decimal mantissa: digits, digits '.', digits '.' digits, '.' digits
isMantissa(s) ==
    LET d == indexIn(s, {"."}, 1)
        ip == SubSeq(s, 1, d - 1)
        fp == SubSeq(s, d + 1, Len(s))
    IN IF d > Len(s) THEN isDigits(s)
       ELSE /\ (ip = <<>> \/ isDigits(ip))
            /\ (fp = <<>> \/ isDigits(fp))
            /\ (ip # <<>> \/ fp # <<>>)

\* a decimal literal that is an integer or a float: a mantissa and an
\* optional exponent, which needs digits
isDecimal(s) ==
    LET e == indexIn(s, {"e", "E"}, 1)
    IN IF e > Len(s) THEN isMantissa(s)
       ELSE /\ isMantissa(SubSeq(s, 1, e - 1))
            /\ isDigits(unsigned(SubSeq(s, e + 1, Len(s))))

\* a literal with a base prefix
isPrefixed(s) ==
    /\ Len(s) > 2
    /\ s[1] = "0"
    /\ s[2] \in {"x", "X", "o", "O", "b", "B"}

\* the number parser: at least one of int, uint, float, complex parses
\* the text of a NUMBER item
numberOK(s) ==
    LET u == unsigned(s)
        r == IF u # <<>> /\ u[Len(u)] = "i" THEN SubSeq(u, 1, Len(u) - 1)
             ELSE u
    IN isPrefixed(r) \/ isDecimal(r)

\* the items that start a term, hence a command
TermStart ==
    {"itemBool", "itemCharConstant", "itemComplex", "itemDot", "itemField",
     "itemIdentifier", "itemNumber", "itemNil", "itemRawString",
     "itemString", "itemVariable", "itemLeftParen"}

RECURSIVE pipeline(_, _, _, _, _)

\* term: a literal, an identifier (a function when it heads a command), a
\* dot, nil, a variable, a field or a parenthesized pipeline
term(p, head, md, fn) ==
    LET token == peekTok(p)
    IN CASE token.typ = "itemIdentifier" ->
              IF head /\ checkFunc(md) /\ ~Has(fn, token.val)
              THEN Res(t_errorf(p, <<"function not defined", token.val>>),
                       NoNode)
              ELSE Res(adv(p), [typ |-> "NodeIdentifier",
                                ident |-> <<token.val>>])
         [] token.typ = "itemDot" -> Res(adv(p), [typ |-> "NodeDot"])
         [] token.typ = "itemNil" -> Res(adv(p), [typ |-> "NodeNil"])
         [] token.typ = "itemVariable" ->
              IF \E k \in DOMAIN p.vars : p.vars[k] = token.val
              THEN Res(adv(p), [typ |-> "NodeVariable",
                                ident |-> <<token.val>>])
              ELSE Res(t_errorf(p, <<"undefined variable", token.val>>),
                       NoNode)
         [] token.typ = "itemField" ->
              Res(adv(p), [typ |-> "NodeField", ident |-> <<token.val>>])
         [] token.typ = "itemBool" ->
              Res(adv(p), [typ |-> "NodeBool", text |-> token.val])
         [] token.typ = "itemNumber" ->
              IF numberOK(token.val)
              THEN Res(adv(p), [typ |-> "NodeNumber", text |-> token.val])
              ELSE Res(t_errorf(p, <<"illegal number syntax", token.val>>),
                       NoNode)
         [] token.typ \in {"itemCharConstant", "itemComplex"} ->
              Res(adv(p), [typ |-> "NodeNumber", text |-> token.val])
         [] token.typ \in {"itemString", "itemRawString"} ->
              Res(adv(p), [typ |-> "NodeString", text |-> token.val])
         [] token.typ = "itemLeftParen" ->
              pipeline(adv(p), "parenthesized pipeline", "itemRightParen",
                       md, fn)
         [] OTHER -> Res(p, NoNode)

\* the index after the run of FIELD items that starts at index i
RECURSIVE fieldsEnd(_, _)
fieldsEnd(toks, i) ==
    IF peekAt(toks, i).typ = "itemField" THEN fieldsEnd(toks, i + 1) ELSE i

\* the texts of the items i .. e - 1
texts(toks, i, e) == [k \in 1 .. e - i |-> toks[i + k - 1].val]

\* operand, second half: the fields that directly follow the term r are
\* folded into a field or a variable, or chained to another term
operandFields(r) ==
    IF r.p.err # <<>> \/ r.node = NoNode THEN r
    ELSE IF peekTok(r.p).typ # "itemField" THEN r
    ELSE LET e == fieldsEnd(r.p.toks, r.p.i)
             names == texts(r.p.toks, r.p.i, e)
             q == [r.p EXCEPT !.i = e]
         IN CASE r.node.typ \in {"NodeField", "NodeVariable"} ->
                   Res(q, [r.node EXCEPT !.ident = @ \o names])
              [] r.node.typ \in {"NodeBool", "NodeString", "NodeNumber",
                                 "NodeNil", "NodeDot"} ->
                   Res(t_errorf(r.p, <<"unexpected . after term">>), NoNode)
              [] OTHER ->
                   Res(q, [typ |-> "NodeChain", node |-> r.node,
                           field |-> names])

\* operand: a term, possibly followed by field accesses
operand(p, head, md, fn) == operandFields(term(p, head, md, fn))

RECURSIVE commandLoop(_, _, _, _)

\* the end of a command: it has at least one operand
commandEnd(p, args) ==
    IF args = <<>> THEN Res(t_errorf(p, <<"empty command">>), NoNode)
    ELSE Res(p, [typ |-> "NodeCommand", args |-> args])

\* command, after the operand r: a space continues the command, a pipe or
\* the closing delimiter ends it, anything else is out of place
commandNext(r, args, md, fn) ==
    IF r.p.err # <<>> THEN r
    ELSE LET args2 == IF r.node = NoNode THEN args
                      ELSE Append(args, r.node)
             token == peekTok(r.p)
         IN CASE token.typ = "itemSpace" ->
                   commandLoop(adv(r.p), args2, md, fn)
              [] token.typ \in {"itemRightDelim", "itemRightParen"} ->
                   commandEnd(r.p, args2)
              [] token.typ = "itemPipe" -> commandEnd(adv(r.p), args2)
              [] OTHER ->
                   Res(unexpected(r.p, token, "operand"), NoNode)

\* command: operands separated by spaces, up to a pipe or the closing
\* delimiter
commandLoop(p, args, md, fn) ==
    commandNext(operand(skipSpace(p), args = <<>>, md, fn), args, md, fn)

\* a command that starts with a bare value cannot take the value piped
\* into it
executableAny(cmd) == TRUE

executable(cmd) ==
    cmd.args[1].typ \notin {"NodeBool", "NodeDot", "NodeNil", "NodeNumber",
                            "NodeString"}

\* the closing delimiter of a pipeline is read: the pipeline has a
\* command, and every command after the first is executable
checkPipeline(p, context, decl, cmds) ==
    IF cmds = <<>>
    THEN Res(t_errorf(p, <<"missing value for", context>>), NoNode)
    ELSE IF \E k \in 2 .. Len(cmds) : ~executable(cmds[k])
    THEN Res(t_errorf(p, <<"non executable command in pipeline">>), NoNode)
    ELSE Res(p, [typ |-> "NodePipe", decl |-> decl, cmds |-> cmds])

\* how many variables the pipeline of a construct may declare
maxDeclsTwo(context) == 2

maxDecls(context) == IF context = "range" THEN 2 ELSE 1

\* the leading declarations of a pipeline: $v := or $v =, and for range
\* $k, $v :=.  Returns the position after them and the declared names; a
\* variable that is followed by neither is left to be read as an operand
RECURSIVE declsLoop(_, _, _)
declsLoop(p, context, decl) ==
    LET q == skipSpace(p)
        v == peekTok(q)
        q2 == skipSpace(adv(q))
        next == peekTok(q2)
        declared == [adv(q2) EXCEPT !.vars = Append(@, v.val)]
    IN IF v.typ # "itemVariable" THEN [p |-> p, decl |-> decl]
       ELSE CASE next.typ \in {"itemAssign", "itemDeclare"} ->
                   [p |-> declared, decl |-> Append(decl, v.val)]
              [] next.typ = "itemChar" /\ next.val = <<",">> ->
                   IF Len(decl) + 1 >= maxDecls(context)
                   THEN [p |-> t_errorf(q2, <<"too many declarations",
                                            context>>),
                         decl |-> decl]
                   ELSE IF peekNonSpace(adv(q2)).typ \in
                               {"itemVariable", "itemRightDelim",
                                "itemRightParen"}
                   THEN declsLoop(declared, context, Append(decl, v.val))
                   ELSE [p |-> t_errorf(q2, <<"range can only initialize variables">>),
                         decl |-> decl]
              [] OTHER -> [p |-> p, decl |-> decl]

\* the commands of a pipeline, up to its closing delimiter end
RECURSIVE pipelineLoop(_, _, _, _, _, _, _)

pipelineCmd(r, context, end, decl, cmds, md, fn) ==
    IF r.p.err # <<>> THEN r
    ELSE pipelineLoop(r.p, context, end, decl, Append(cmds, r.node), md, fn)

pipelineLoop(p, context, end, decl, cmds, md, fn) ==
    IF p.err # <<>> THEN Res(p, NoNode)
    ELSE LET q == skipSpace(p)
             token == peekTok(q)
         IN CASE token.typ = end ->
                   checkPipeline(adv(q), context, decl, cmds)
              [] token.typ \in TermStart ->
                   pipelineCmd(commandLoop(q, <<>>, md, fn), context, end,
                               decl, cmds, md, fn)
              [] OTHER -> Res(unexpected(q, token, context), NoNode)

pipelineDecls(d, context, end, md, fn) ==
    pipelineLoop(d.p, context, end, d.decl, <<>>, md, fn)

\* pipeline: declarations, then commands separated by pipes
pipeline(p, context, end, md, fn) ==
    pipelineDecls(declsLoop(p, context, <<>>), context, end, md, fn)

----------------------------------------------------------------------------
(***************************************************************************)
(* The parser: actions and control constructs                              *)
(*                                                                         *)
(* The recursion of the parser over nested constructs is kept as a stack   *)
(* of frames, one per construct that is open; the body of a construct is   *)
(* collected in its frame until its end is read.                           *)
(***************************************************************************)

\* the parser as one record
Parser ==
    [Name |-> Name, Mode |-> Mode, funcs |-> funcs, vars |-> tvars,
     rangeDepth |-> rangeDepth, stack |-> stack, Root |-> Root,
     treeSet |-> treeSet, err |-> perr, line |-> pline]

\* the first error aborts the parse: the partial tree is dropped
fail(S, msg) ==
    [S EXCEPT !.err = msg, !.stack = <<>>, !.Root = <<>>]

\* the position at the second item of the action a (the first is the
\* synthetic left delimiter)
startOf(S, a) == [toks |-> a, i |-> 2, vars |-> S.vars, err |-> <<>>]

\* the node n is appended to the list under construction: the body or the
\* else branch of the innermost open construct, or the root of the tree
appendNode(S, n) ==
    IF S.stack = <<>> THEN [S EXCEPT !.Root = Append(@, n)]
    ELSE IF S.stack[Len(S.stack)].inElse
    THEN [S EXCEPT !.stack[Len(S.stack)].elseList = Append(@, n)]
    ELSE [S EXCEPT !.stack[Len(S.stack)].list = Append(@, n)]

\* a frame of the stack
frame(kind, nm, pipe, S, mark, chained) ==
    [kind |-> kind, name |-> nm, pipe |-> pipe, line |-> S.line,
     list |-> <<>>, elseList |-> <<>>, inElse |-> FALSE, mark |-> mark,
     chained |-> chained,
     outer |-> [Name |-> S.Name, vars |-> S.vars,
                rangeDepth |-> S.rangeDepth]]

\* the item after a keyword that takes no argument is the right delimiter
closed(S, p) == peekNonSpace(p).typ = "itemRightDelim"

\* a registration that replaces the tree already defined
addOverwrite(S, nm, list) ==
    [S EXCEPT !.treeSet = [n \in DOMAIN S.treeSet \cup {nm} |->
                               IF n = nm THEN list ELSE S.treeSet[n]]]

\* t.add(): the tree named nm, with root list, enters the tree set; a name
\* is defined once
add(S, nm, list) ==
    IF nm \in DOMAIN S.treeSet
    THEN fail(S, <<"multiple definition of template", nm>>)
    ELSE [S EXCEPT !.treeSet = [n \in DOMAIN S.treeSet \cup {nm} |->
                                    IF n = nm THEN list ELSE S.treeSet[n]]]

\* the text of a STRING or RAW_STRING item without its quotes
unquote(val) == SubSeq(val, 2, Len(val) - 1)

\* define "name": the body that follows is parsed as a tree of its own,
\* with its own scope stack and range depth
parseDefinition(S, p) ==
    LET q == skipSpace(p)
        token == peekTok(q)
    IN IF token.typ \notin {"itemString", "itemRawString"}
       THEN fail(S, unexpected(q, token, "define clause").err)
       ELSE IF ~closed(S, adv(q))
       THEN fail(S, unexpected(q, peekNonSpace(adv(q)),
                               "define clause").err)
       ELSE [S EXCEPT
               !.stack = Append(@, frame("define", unquote(token.val),
                                         NoNode, S, Len(S.vars), FALSE)),
               !.Name = unquote(token.val),
               !.vars = startVars,
               !.rangeDepth = 0]

\* block "name" pipeline, after the pipeline r: the body that follows is
\* parsed as a tree of its own
blockBody(S, nm, r) ==
    IF r.p.err # <<>> THEN fail(S, r.p.err)
    ELSE [S EXCEPT
            !.stack = Append(@, frame("block", nm, r.node,
                                      [S EXCEPT !.vars = r.p.vars],
                                      Len(r.p.vars), FALSE)),
            !.Name = nm,
            !.vars = startVars,
            !.rangeDepth = 0]

\* block "name" pipeline
blockControl(S, p) ==
    LET q == skipSpace(p)
        token == peekTok(q)
    IN IF token.typ \notin {"itemString", "itemRawString"}
       THEN fail(S, unexpected(q, token, "block clause").err)
       ELSE blockBody(S, unquote(token.val),
                      pipeline(adv(q), "block clause", "itemRightDelim",
                               S.Mode, S.funcs))

\* template "name" [pipeline], after the optional pipeline r
templateNode(S, nm, r) ==
    IF r.p.err # <<>> THEN fail(S, r.p.err)
    ELSE appendNode([S EXCEPT !.vars = r.p.vars],
                    [typ |-> "NodeTemplate", name |-> nm, pipe |-> r.node,
                     line |-> S.line, tr |-> S.Name])

\* template "name" [pipeline]
templateControl(S, p) ==
    LET q == skipSpace(p)
        token == peekTok(q)
    IN IF token.typ \notin {"itemString", "itemRawString"}
       THEN fail(S, unexpected(q, token, "template clause").err)
       ELSE IF closed(S, adv(q))
       THEN templateNode(S, unquote(token.val), Res(adv(q), NoNode))
       ELSE templateNode(S, unquote(token.val),
                         pipeline(adv(q), "template clause",
                                  "itemRightDelim", S.Mode, S.funcs))

\* the range depth inside the main body of a construct of the given kind
rangeBody(S, kind) ==
    IF kind = "range" THEN S.rangeDepth + 1 ELSE S.rangeDepth

\* if / with / range pipeline, after the pipeline r: the variables the
\* pipeline declares are in scope from here; mark is the height of the
\* scope stack at the entry of the construct
controlBody(S, kind, r, chained) ==
    IF r.p.err # <<>> THEN fail(S, r.p.err)
    ELSE [S EXCEPT
            !.stack = Append(@, frame(kind, <<>>, r.node, S, Len(S.vars),
                                      chained)),
            !.vars = r.p.vars,
            !.rangeDepth = rangeBody(S, kind)]

\* if / with / range pipeline
parseControl(S, kind, p, chained) ==
    controlBody(S, kind,
                pipeline([p EXCEPT !.vars = S.vars], kind, "itemRightDelim",
                         S.Mode, S.funcs),
                chained)

\* a scope stack that is left as it is when a construct ends
popVarsNone(vs, mark) == vs

\* t.popVars(mark)
popVars(vs, mark) == SubSeq(vs, 1, mark)

\* the range depth after the main body of the construct of frame f
afterBody(S, f) ==
    IF f.kind = "range" /\ ~f.inElse THEN S.rangeDepth - 1 ELSE S.rangeDepth

\* else, and else if pipeline: the main body of the innermost open
\* if / with / range is over
elseControl(S, p) ==
    LET f == S.stack[Len(S.stack)]
        S1 == [S EXCEPT !.stack[Len(S.stack)].inElse = TRUE,
                        !.vars = popVars(S.vars, f.mark),
                        !.rangeDepth = afterBody(S, f)]
    IN IF S.stack = <<>> THEN fail(S, <<"unexpected", "else">>)
       ELSE IF f.kind \notin {"if", "with", "range"} \/ f.inElse
       THEN fail(S, <<"unexpected", "else">>)
       ELSE IF peekNonSpace(p).typ = "itemIf" /\ f.kind = "if"
       THEN parseControl(S1, "if", adv(skipSpace(p)), TRUE)
       ELSE IF ~closed(S, p)
       THEN fail(S, unexpected(p, peekNonSpace(p), "else").err)
       ELSE S1

\* the node of the construct of frame f
controlNode(S, f) ==
    [typ |-> CASE f.kind = "if" -> "NodeIf"
               [] f.kind = "with" -> "NodeWith"
               [] f.kind = "range" -> "NodeRange",
     pipe |-> f.pipe, list |-> f.list, elseList |-> f.elseList,
     line |-> f.line, tr |-> S.Name]

\* a block that leaves no call behind
blockCallMissing(S, f) == S

\* the end of a block: the call that stands for it in the enclosing tree
blockCall(S, f) ==
    appendNode(S, [typ |-> "NodeTemplate", name |-> f.name,
                   pipe |-> f.pipe, line |-> f.line, tr |-> S.Name])

\* the tree of a define or a block is complete: it is registered, and the
\* parse of the enclosing tree resumes
endTree(S, f) ==
    add([S EXCEPT !.Name = f.outer.Name, !.vars = f.outer.vars,
                  !.rangeDepth = f.outer.rangeDepth],
        f.name, f.list)

endBlock(T, f) == IF T.err # <<>> THEN T ELSE blockCall(T, f)

\* end: the innermost open construct is complete
RECURSIVE endControl(_)
endChained(S, f) == IF f.chained THEN endControl(S) ELSE S

endControl(S) ==
    LET f == S.stack[Len(S.stack)]
        S1 == [S EXCEPT !.stack = SubSeq(@, 1, Len(@) - 1)]
    IN IF S.stack = <<>> THEN fail(S, <<"unexpected", "end">>)
       ELSE CASE f.kind = "define" -> endTree(S1, f)
              [] f.kind = "block" -> endBlock(endTree(S1, f), f)
              [] OTHER ->
                   endChained(
                       appendNode([S1 EXCEPT
                                     !.vars = popVars(S.vars, f.mark),
                                     !.rangeDepth = afterBody(S, f)],
                                  controlNode(S1, f)),
                       f)

\* break and continue outside the main body of a range
inRangeAlways(S) == TRUE

inRange(S) == S.rangeDepth > 0

\* break / continue
loopControl(S, p, word, typ) ==
    IF ~closed(S, p)
    THEN fail(S, unexpected(p, peekNonSpace(p), word).err)
    ELSE IF ~inRange(S)
    THEN fail(S, <<"outside range", word>>)
    ELSE appendNode(S, [typ |-> typ, line |-> S.line, tr |-> S.Name])

\* an action that is a pipeline, after the pipeline r
actionNode(S, r) ==
    IF r.p.err # <<>> THEN fail(S, r.p.err)
    ELSE appendNode([S EXCEPT !.vars = r.p.vars],
                    [typ |-> "NodeAction", pipe |-> r.node,
                     line |-> S.line, tr |-> S.Name])

\* the action a, whose first item after the left delimiter is token
action(S, a, p, token) ==
    CASE token.typ = "itemDefine" /\ S.stack = <<>> ->
           parseDefinition(S, adv(p))
      [] token.typ = "itemBlock" -> blockControl(S, adv(p))
      [] token.typ = "itemBreak" ->
           loopControl(S, adv(p), "break", "NodeBreak")
      [] token.typ = "itemContinue" ->
           loopControl(S, adv(p), "continue", "NodeContinue")
      [] token.typ = "itemElse" -> elseControl(S, adv(p))
      [] token.typ = "itemEnd" ->
           IF closed(S, adv(p)) THEN endControl(S)
           ELSE fail(S, unexpected(p, peekNonSpace(adv(p)), "end").err)
      [] token.typ = "itemIf" -> parseControl(S, "if", adv(p), FALSE)
      [] token.typ = "itemRange" -> parseControl(S, "range", adv(p), FALSE)
      [] token.typ = "itemWith" -> parseControl(S, "with", adv(p), FALSE)
      [] token.typ = "itemTemplate" -> templateControl(S, adv(p))
      [] OTHER ->
           actionNode(S, pipeline(p, "command", "itemRightDelim", S.Mode,
                                  S.funcs))

\* one step of the parse: the items a of the next source line are read.
\* A line without an action yields no item; a COMMENT item is kept only
\* in mode ParseComments; an ERROR item of the lexer aborts the parse
textOrAction(S, a) ==
    CASE a = <<>> -> S
      [] a[1].typ = "itemError" -> fail(S, a[1].val)
      [] a[1].typ = "itemComment" ->
           IF "ParseComments" \in S.Mode
           THEN appendNode(S, [typ |-> "NodeComment", text |-> a[1].val,
                               line |-> S.line, tr |-> S.Name])
           ELSE S
      [] a[1].typ # "itemLeftDelim" ->
           fail(S, unexpected(startOf(S, a), a[1], "input").err)
      [] OTHER ->
           action(S, a, skipSpace(startOf(S, a)),
                  peekNonSpace(startOf(S, a)))

\* the end of the input: every construct is closed, and the tree parsed
\* enters the tree set under its name
parseEnd(S) ==
    IF S.stack # <<>> THEN fail(S, <<"unexpected EOF">>)
    ELSE add(S, S.Name, S.Root)

----------------------------------------------------------------------------
(***************************************************************************)
(* The parser: Parse, one action per step of the parse                     *)
(***************************************************************************)

\* source lines read in all, and parses made against the one tree set
MaxLines == 4
MaxParses == 2

\* the names of the trees handed to Parse
ParseNames == {<<"o">>, <<"a">>}

\* items, as the lexer returns them
iLeftDelim  == I("itemLeftDelim", <<>>)
iRightDelim == I("itemRightDelim", <<>>)
iSpace      == I("itemSpace", <<SP>>)
iDeclare    == I("itemDeclare", <<":", "=">>)
iAssign     == I("itemAssign", <<"=">>)
iComma      == I("itemChar", <<",">>)
iPipe       == I("itemPipe", <<"|">>)
iDot        == I("itemDot", <<".">>)
iNil        == I("itemNil", <<"n", "i", "l">>)
iLeftParen  == I("itemLeftParen", <<"(">>)
iRightParen == I("itemRightParen", <<")">>)
iEOF        == I("itemEOF", <<>>)
iVar(c)     == I("itemVariable", <<"$", c>>)
iDollar     == I("itemVariable", <<"$">>)
iField(c)   == I("itemField", <<".", c>>)
iNumber(c)  == I("itemNumber", <<c>>)
iString(c)  == I("itemString", <<DQ, c, DQ>>)
iKeyword(typ, word) == I(typ, word)

iWith     == I("itemWith", <<"w", "i", "t", "h">>)
iRange    == I("itemRange", <<"r", "a", "n", "g", "e">>)
iIf       == I("itemIf", <<"i", "f">>)
iElse     == I("itemElse", <<"e", "l", "s", "e">>)
iEnd      == I("itemEnd", <<"e", "n", "d">>)
iBreak    == I("itemBreak", <<"b", "r", "e", "a", "k">>)
iContinue == I("itemContinue", <<"c", "o", "n", "t", "i", "n", "u", "e">>)
iDefine   == I("itemDefine", <<"d", "e", "f", "i", "n", "e">>)
iBlock    == I("itemBlock", <<"b", "l", "o", "c", "k">>)

\* the items of one action: the lexer brackets them with the synthetic
\* delimiters
Act(body) == <<iLeftDelim>> \o body \o <<iRightDelim>>

\* the source lines the parses are made of
Lines ==
    {Act(<<iWith, iSpace, iVar("x"), iSpace, iDeclare, iSpace,
           iNumber("4")>>),
     Act(<<iRange, iSpace, iVar("x"), iSpace, iDeclare, iSpace, iDot>>),
     Act(<<iIf, iSpace, iDot>>),
     Act(<<iElse>>),
     Act(<<iEnd>>),
     Act(<<iBreak>>),
     Act(<<iContinue>>),
     Act(<<iVar("x")>>),
     Act(<<iVar("x"), iSpace, iDeclare, iSpace, iNumber("0")>>),
     Act(<<iDollar>>),
     Act(<<iDefine, iSpace, iString("a")>>),
     Act(<<iBlock, iSpace, iString("a"), iSpace, iDot>>),
     Act(<<iBlock, iSpace, iString("a")>>)}

\* the parser takes the state T
setParser(T) ==
    /\ Name' = T.Name
    /\ tvars' = T.vars
    /\ rangeDepth' = T.rangeDepth
    /\ stack' = T.stack
    /\ Root' = T.Root
    /\ treeSet' = T.treeSet
    /\ perr' = T.err
    /\ pline' = T.line

\* New(name).Parse(text, treeSet, funcs): a parse starts against the tree
\* set the earlier parses have left
StartParse ==
    /\ status \in {"idle", "done", "failed"}
    /\ parses < MaxParses
    /\ parses' = parses + 1
    /\ \E nm \in ParseNames : Name' = nm
    /\ Mode' = {}
    /\ funcs' = builtins
    /\ tvars' = startVars
    /\ rangeDepth' = 0
    /\ stack' = <<>>
    /\ Root' = <<>>
    /\ perr' = <<>>
    /\ pline' = 0
    /\ status' = "parsing"
    /\ lastAction' = <<>>
    /\ setBefore' = treeSet
    /\ UNCHANGED <<treeSet, consumed, shape>>
    /\ UNCHANGED <<lazyVars, lexVars>>

\* the parser reads the items of the next source line
ParseLine ==
    /\ status = "parsing"
    /\ consumed < MaxLines
    /\ consumed' = consumed + 1
    /\ \E a \in Lines :
           /\ lastAction' = a
           /\ setParser(textOrAction([Parser EXCEPT !.line = @ + 1], a))
    /\ status' = IF perr' # <<>> THEN "failed" ELSE "parsing"
    /\ UNCHANGED <<Mode, funcs, parses, setBefore, shape>>
    /\ UNCHANGED <<lazyVars, lexVars>>

\* the parser reads EOF
ParseEOF ==
    /\ status = "parsing"
    /\ lastAction' = <<iEOF>>
    /\ setParser(parseEnd(Parser))
    /\ status' = IF perr' # <<>> THEN "failed" ELSE "done"
    /\ UNCHANGED <<Mode, funcs, parses, consumed, setBefore, shape>>
    /\ UNCHANGED <<lazyVars, lexVars>>

NextParse ==
    \/ StartParse
    \/ ParseLine
    \/ ParseEOF

\* parses of texts made of the source lines, against one tree set
InitParse ==
    /\ InitLazy
    /\ lex(<<>>, FALSE)
    /\ InitParser

SpecParse == InitParse /\ [][NextParse]_vars

----------------------------------------------------------------------------
(***************************************************************************)
(* The parser: one action line of every shape                              *)
(*                                                                         *)
(* A line is a keyword or none, a declaration or none, and a pipeline of   *)
(* commands of one operand each.                                           *)
(***************************************************************************)

\* commands in the pipeline of a line
MaxCmds == 2

\* the operands a command is made of
OperandForms ==
    {"number", "bool", "string", "char", "nil", "dot", "ident", "unknown",
     "field", "var", "undef", "paren", "chain"}

\* the items of an operand
formItems(o) ==
    CASE o = "number" -> <<iNumber("1")>>
      [] o = "bool" -> <<I("itemBool", <<"t", "r", "u", "e">>)>>
      [] o = "string" -> <<iString("s")>>
      [] o = "char" -> <<I("itemCharConstant", <<"'", "c", "'">>)>>
      [] o = "nil" -> <<iNil>>
      [] o = "dot" -> <<iDot>>
      [] o = "ident" ->
           <<I("itemIdentifier", <<"p", "r", "i", "n", "t", "f">>)>>
      [] o = "unknown" -> <<I("itemIdentifier", <<"f">>)>>
      [] o = "field" -> <<iField("F")>>
      [] o = "var" -> <<iDollar>>
      [] o = "undef" -> <<iVar("u")>>
      [] o = "paren" -> <<iLeftParen, iDot, iRightParen>>
      [] o = "chain" -> <<iLeftParen, iDot, iRightParen, iField("F")>>

\* the items of a pipeline of the commands cs, a pipe between two of them
RECURSIVE pipeItems(_)
pipeItems(cs) ==
    IF Len(cs) = 1 THEN formItems(cs[1])
    ELSE formItems(cs[1]) \o <<iSpace, iPipe, iSpace>> \o pipeItems(Tail(cs))

\* the keywords a line starts with
Keywords == {"command", "with", "range"}

keywordItems(kw) ==
    CASE kw = "command" -> <<>>
      [] kw = "with" -> <<iWith, iSpace>>
      [] kw = "range" -> <<iRange, iSpace>>

\* the declarations a pipeline starts with
DeclForms == {"none", "one", "two", "three", "field", "assign"}

declItems(d) ==
    CASE d = "none" -> <<>>
      [] d = "one" -> <<iVar("x"), iSpace, iDeclare, iSpace>>
      [] d = "two" ->
           <<iVar("x"), iComma, iSpace, iVar("y"), iSpace, iDeclare, iSpace>>
      [] d = "three" ->
           <<iVar("x"), iComma, iSpace, iVar("y"), iComma, iSpace, iVar("z"),
             iSpace, iDeclare, iSpace>>
      [] d = "field" ->
           <<iVar("x"), iField("Y"), iSpace, iDeclare, iSpace>>
      [] d = "assign" -> <<iVar("x"), iSpace, iAssign, iSpace>>

\* the pipelines of 1 .. MaxCmds commands
Pipelines == UNION {[1 .. n -> OperandForms] : n \in 1 .. MaxCmds}

\* the items of the line with keyword kw, declaration d and commands cs
LineOf(kw, d, cs) == Act(keywordItems(kw) \o declItems(d) \o pipeItems(cs))

\* New("o"), with the mode md, before Parse reads the first line
StartPipe ==
    /\ status = "idle"
    /\ parses < MaxParses
    /\ parses' = parses + 1
    /\ Name' = <<"o">>
    /\ \E md \in {{}, {"SkipFuncCheck"}} : Mode' = md
    /\ funcs' = builtins
    /\ tvars' = startVars
    /\ rangeDepth' = 0
    /\ stack' = <<>>
    /\ Root' = <<>>
    /\ perr' = <<>>
    /\ pline' = 0
    /\ status' = "parsing"
    /\ lastAction' = <<>>
    /\ setBefore' = treeSet
    /\ UNCHANGED <<treeSet, consumed, shape>>
    /\ UNCHANGED <<lazyVars, lexVars>>

\* the parser reads the items of the first line
PipeLine ==
    /\ status = "parsing"
    /\ consumed = 0
    /\ consumed' = consumed + 1
    /\ \E kw \in Keywords, d \in DeclForms, cs \in Pipelines :
           /\ shape' = <<kw, d, cs>>
           /\ lastAction' = LineOf(kw, d, cs)
           /\ setParser(textOrAction([Parser EXCEPT !.line = @ + 1],
                                     LineOf(kw, d, cs)))
    /\ status' = IF perr' # <<>> THEN "failed" ELSE "parsing"
    /\ UNCHANGED <<Mode, funcs, parses, setBefore>>
    /\ UNCHANGED <<lazyVars, lexVars>>

NextPipe ==
    \/ StartPipe
    \/ PipeLine
    \/ ParseEOF

\* parses of one line of every shape, in either mode
SpecPipe == InitParse /\ [][NextPipe]_vars

----------------------------------------------------------------------------
(***************************************************************************)
(* The parser behind the lexer: Tree.parseLexer                            *)
(***************************************************************************)

\* the index of the item that ends the action starting at index i
RECURSIVE actEnd(_, _)
actEnd(toks, i) ==
    IF i >= Len(toks) THEN i
    ELSE IF toks[i].typ \in {"itemRightDelim", "itemError", "itemEOF"} THEN i
    ELSE actEnd(toks, i + 1)

\* t.parse(): the top-level loop over the items the lexer returns, from
\* index i on, up to EOF or the first error
RECURSIVE parse(_, _, _)
parse(S, toks, i) ==
    IF S.err # <<>> THEN S
    ELSE IF i > Len(toks) \/ toks[i].typ = "itemEOF" THEN parseEnd(S)
    ELSE IF toks[i].typ \in {"itemComment", "itemError"}
    THEN parse(textOrAction(S, <<toks[i]>>), toks, i + 1)
    ELSE parse(textOrAction([S EXCEPT !.line = toks[i].line],
                            SubSeq(toks, i, actEnd(toks, i))),
               toks, actEnd(toks, i) + 1)

\* longest input of numbers and fields scanned
MaxNumLen == 5

\* the bytes of a number, a fraction point or field dot, an exponent mark
\* or field name, and the separators of a declaration
NumAlphabet == {"1", ".", "E", SP, ","}

\* lex_test.go:521-531  parseLexer: the tree 'o' is parsed from the items
\* the lexer has returned, against an empty tree set
ParseLexer ==
    /\ status = "idle"
    /\ nextState = "nil"
    /\ parses < MaxParses
    /\ parses' = parses + 1
    /\ Mode' = {}
    /\ funcs' = builtins
    /\ setBefore' = <<>>
    /\ setParser(parse([Parser EXCEPT !.Name = <<"o">>, !.treeSet = <<>>],
                       tokens, 1))
    /\ status' = IF perr' # <<>> THEN "failed" ELSE "done"
    /\ UNCHANGED <<lastAction, consumed, shape>>
    /\ UNCHANGED <<lazyVars, lexVars>>

NextNum ==
    \/ RunLexWhitespace
    \/ RunLexInsideAction
    \/ RunLexInActionSpace
    \/ FakeEOF
    \/ ParseLexer

\* the lexer over every input of that alphabet, and the parser behind it
InitNum ==
    /\ \E inp \in SeqsUpTo(NumAlphabet, MaxNumLen) : lex(inp, FALSE)
    /\ InitLazy
    /\ InitParser

SpecNum == InitNum /\ [][NextNum]_vars

----------------------------------------------------------------------------
(***************************************************************************)
(* Properties of LazyValue.GetLazyValue, checked under SpecLazy            *)
(***************************************************************************)

\* the goroutines whose call has returned
Returned == {p \in Callers : pc[p] = "done"}

\* C1: for every interleaving of the atomic steps of concurrent
\* GetLazyValue calls, Create is invoked at most once, and exactly once as
\* soon as one call has returned.
C1_CreateOnce ==
    /\ called <= 1
    /\ Returned # {} => called = 1

\* C1 witness: the winner and a loser have both returned.
C1_Witness ==
    \E p, q \in Returned : won[p] /\ ~won[q]

\* C2: no call returns before the one Create invocation has completed and
\* its result is stored in value; a caller that lost the compare-and-swap
\* leaves its spin loop only after the winner has written value and
\* decremented writing.
C2_NoReturnBeforeCreate ==
    \A p \in Callers :
        pc[p] \in {"ret", "done"} =>
            /\ value = testdata
            /\ \E w \in Callers : won[w] /\ pc[w] \in {"ret", "done"}

\* C2 witness: a loser has left its spin loop while the winner, which has
\* released the counter, has not yet executed its own return.
C2_Witness ==
    \E p, w \in Callers :
        /\ ~won[p] /\ pc[p] = "done"
        /\ won[w] /\ pc[w] = "ret"

\* C3: every call, whether it won or lost the race and whenever it was
\* started, returns the value the single Create produced; none returns the
\* zero value or a partially written one.
C3_AllObserveCreated ==
    \A p \in Returned : result[p] = testdata

\* C3 witness: a loser and the winner have returned the created value
\* while another goroutine has yet to make its call.
C3_Witness ==
    \E p, w, q \in Callers :
        /\ ~won[p] /\ pc[p] = "done" /\ result[p] = testdata
        /\ won[w] /\ pc[w] = "done" /\ result[w] = testdata
        /\ pc[q] = "idle"

\* C4: Create terminates and finitely many calls are made; under fair
\* scheduling every call that has entered GetLazyValue returns.
C4_EveryCallReturns ==
    \A p \in Callers : (pc[p] # "idle") ~> (pc[p] = "done")

\* C4 witness: a loser has found writing # 0 and yields while the winner is
\* still inside Create.
C4_Witness ==
    \E p, w \in Callers : pc[p] = "yield" /\ pc[w] = "creating"

----------------------------------------------------------------------------
(***************************************************************************)
(* Properties of the lexer, checked under Spec                             *)
(***************************************************************************)

\* the item types of the items returned so far
Types == [k \in DOMAIN tokens |-> tokens[k].typ]

\* the scan has ended: nextItem has returned its last item
Ended == nextState = "nil"

\* the item that ended the scan
FinalItem == tokens[Len(tokens) - extra]

\* number of items of type t among the first k returned
RECURSIVE CountType(_, _)
CountType(t, k) ==
    IF k = 0 THEN 0
    ELSE (IF tokens[k].typ = t THEN 1 ELSE 0) + CountType(t, k - 1)

\* 1 inside an action and 0 outside, after the first k items, if the
\* delimiters alternate
OpenAfter(k) == CountType("itemLeftDelim", k) - CountType("itemRightDelim", k)

\* C5: when the token stream ends in EOF with no ERROR, LEFT_DELIM and
\* RIGHT_DELIM alternate starting with LEFT_DELIM, no action is open at the
\* EOF token, and every token but COMMENT and EOF lies between a LEFT_DELIM
\* and its RIGHT_DELIM.
C5_DelimitersBracketActions ==
    (Ended /\ FinalItem.typ = "itemEOF") =>
        /\ \A k \in DOMAIN tokens : OpenAfter(k) \in {0, 1}
        /\ OpenAfter(Len(tokens)) = 0
        /\ \A k \in DOMAIN tokens :
               tokens[k].typ \notin {"itemLeftDelim", "itemRightDelim",
                                     "itemComment", "itemEOF"}
                   => OpenAfter(k) = 1

\* C6: whenever RIGHT_DELIM is emitted parenDepth is 0, and every action
\* starts at paren depth 0.
C6_RightDelimAtDepthZero ==
    (tokens # <<>> /\ tokens[Len(tokens)].typ \in
                          {"itemRightDelim", "itemLeftDelim"})
        => parenDepth = 0

\* the RIGHT_DELIM item d was emitted for a newline: the byte before its
\* position is the LF that lexInActionSpace consumed
AtNewline(d) ==
    d.typ = "itemRightDelim" /\ d.pos > 0 /\ At(d.pos - 1) = LF

\* C7: a newline met inside an action while parenDepth > 0 does not
\* terminate the action: no RIGHT_DELIM is emitted for it.
C7_NewlineInsideParens ==
    (tokens # <<>> /\ AtNewline(tokens[Len(tokens)])) => parenDepth = 0

\* C8: when the end of the input is reached while parenDepth > 0, the scan
\* ends with an ERROR token (unclosed left paren, unless another error
\* ended it first) and not with RIGHT_DELIM, EOF.
C8_UnclosedParenAtEOF ==
    (Ended /\ parenDepth > 0) => FinalItem.typ = "itemError"

\* the last byte before offset q that is no space, tab or CR is a backslash
RECURSIVE BackslashBefore(_)
BackslashBefore(q) ==
    IF q = 0 THEN FALSE
    ELSE IF At(q - 1) \in Blank THEN BackslashBefore(q - 1)
    ELSE At(q - 1) = BSL

\* C9: inside an action, a backslash that is the last non-whitespace byte
\* before a newline suppresses the action terminator: no RIGHT_DELIM is
\* emitted at that newline, so that the tokens of the following line
\* continue the action.  (A newline that ends the input is left out: there
\* the end of the input terminates the action.)
C9_BackslashContinues ==
    \A k \in DOMAIN tokens :
        (AtNewline(tokens[k]) /\ tokens[k].pos < InputLen)
            => ~BackslashBefore(tokens[k].pos - 1)

\* the offset of the LF that ends the line of offset h, or len(input)
LineEnd(h) == IF IndexFrom(h, LF) < 0 THEN InputLen ELSE IndexFrom(h, LF)

\* offset h lies inside a string, raw string or char constant item
InLiteral(h) ==
    \E k \in DOMAIN tokens :
        /\ tokens[k].typ \in {"itemString", "itemRawString",
                              "itemCharConstant"}
        /\ tokens[k].pos < h
        /\ h < tokens[k].pos + Len(tokens[k].val)

\* the items that start in the bytes from offset h to the end of its line;
\* the synthetic delimiters and EOF hold no byte, and an ERROR reports the
\* item that was pending
ItemsFrom(h) ==
    {k \in DOMAIN tokens :
        /\ tokens[k].pos \in h .. LineEnd(h)
        /\ tokens[k].typ \notin {"itemLeftDelim", "itemRightDelim",
                                 "itemEOF", "itemError"}}

\* C10: a '#' outside a string, raw string or char literal consumes the
\* rest of its line: those bytes produce no token other than at most one
\* COMMENT, also when the '#' directly follows a token.
C10_HashStartsComment ==
    \A h \in 0 .. InputLen - 1 :
        (At(h) = "#" /\ ~InLiteral(h)) =>
            /\ \A k \in ItemsFrom(h) : tokens[k].typ = "itemComment"
            /\ Cardinality(ItemsFrom(h)) <= 1

\* the items of the sequence s that are no COMMENT, in order
RECURSIVE StripComments(_)
StripComments(s) ==
    IF s = <<>> THEN <<>>
    ELSE IF Head(s).typ = "itemComment" THEN StripComments(Tail(s))
    ELSE <<Head(s)>> \o StripComments(Tail(s))

\* C11: comment emission does not influence the rest of the scan: the
\* items returned with emitComment = TRUE, less the COMMENT items, are the
\* items (type, literal, position, line) returned for the same input with
\* emitComment = FALSE; and with emitComment = FALSE no COMMENT is returned.
C11_CommentsDoNotInfluence ==
    (Ended /\ extra = 0) =>
        /\ emitComment => StripComments(tokens) = collect(FALSE)
        /\ ~emitComment =>
              /\ \A k \in DOMAIN tokens : tokens[k].typ # "itemComment"
              /\ tokens = StripComments(collect(TRUE))

\* C11 witness: a scan with emitComment = TRUE has ended that returned a
\* COMMENT item holding a newline and then the items of an action.
C11_Witness ==
    /\ Ended /\ extra = 0 /\ emitComment
    /\ \E k \in DOMAIN tokens :
          /\ tokens[k].typ = "itemComment"
          /\ tokens[k].val # <<>> /\ tokens[k].val[Len(tokens[k].val)] = LF
          /\ \E j \in DOMAIN tokens : j > k /\ tokens[j].typ = "itemIdentifier"

\* C12: every ERROR item is terminal and the terminal state is absorbing:
\* an ERROR or EOF item is returned with a nil next state, and every item
\* nextItem returns after an ERROR or an EOF is an EOF.
C12_ErrorTerminalAbsorbing ==
    \A k \in DOMAIN tokens :
        tokens[k].typ \in {"itemError", "itemEOF"} =>
            /\ nextState = "nil"
            /\ \A j \in DOMAIN tokens : j > k => tokens[j].typ = "itemEOF"

\* C12 witness: the scan ended with an ERROR and nextItem has been called
\* twice more.
C12_Witness ==
    Ended /\ extra >= 2 /\ FinalItem.typ = "itemError"

\* C13: nextItem never returns an empty item (notEmpty = FALSE): an empty
\* item with a non-nil next state is skipped, and the item returned with a
\* nil next state is a real EOF or ERROR.
C13_NoEmptyItemReturned ==
    /\ \A k \in DOMAIN tokens : tokens[k].notEmpty
    /\ Ended => FinalItem.typ \in {"itemEOF", "itemError"}

\* C13 witness: with emitComment = FALSE the input starts with a comment,
\* which was dropped, and the scan went on to return an identifier.
C13_Witness ==
    /\ Ended /\ ~emitComment
    /\ InputLen > 0 /\ At(0) = "#"
    /\ \E k \in DOMAIN tokens : tokens[k].typ = "itemIdentifier"

\* what is left to do of a scan: the bytes not yet consumed and, among the
\* states at one position, the order in which they can follow one another
\* (an action just opened, then the rest of the action, then the whitespace
\* after it, then the end)
Variant ==
    4 * (InputLen - pos)
    + (CASE nextState = "nil" -> 0
         [] nextState = "lexWhitespace" -> 2
         [] OTHER -> IF tokens # <<>>
                        /\ tokens[Len(tokens)].typ = "itemLeftDelim"
                     THEN 1 ELSE 3)

\* C14: the scan always terminates: every state-function step nextItem
\* takes consumes input or moves on in the order of the states at one
\* position, so that the natural number Variant decreases with each step
\* and a scan of n bytes ends in EOF or ERROR within 4n + 2 steps, the
\* next state being nil or a state function that takes a step; no cycle
\* of states emits or skips items for ever without consuming input.
C14_ScanTerminates ==
    /\ [][ScanStep => Variant' < Variant]_vars
    /\ [](Variant >= 0)
    /\ [](nextState \in {"nil", "lexWhitespace", "lexInsideAction",
                          "lexInActionSpace"})

\* C14 witness: the scan of a run of at least three '|' and ';' has ended.
C14_Witness ==
    /\ Ended
    /\ InputLen >= 3
    /\ \A q \in 0 .. InputLen - 1 : At(q) \in {"|", ";"}

\* C15: line numbers are exact: every returned item's line is 1 plus the
\* number of LF bytes of the input before the item's position, each LF
\* being counted once, also with backslash continuations, comments and
\* trailing newlines.  (Stated for the items other than EOF.)
C15_LinesExact ==
    \A k \in DOMAIN tokens :
        tokens[k].typ # "itemEOF" =>
            tokens[k].line = 1 + CountLF(0, tokens[k].pos)

----------------------------------------------------------------------------
(***************************************************************************)
(* Properties of the lexer's names and numbers, checked under SpecArgs     *)
(***************************************************************************)

\* the bytes that may follow a name or a number
TerminatorBytes == {".", ",", "|", ":", ")", "(", SP, TAB, CR, LF, ";"}

\* the item types of identifiers, keywords, fields and variables
NameTypes ==
    {"itemIdentifier", "itemField", "itemVariable", "itemBlock",
     "itemBreak", "itemContinue", "itemDefine", "itemElse", "itemEnd",
     "itemIf", "itemRange", "itemNil", "itemTemplate", "itemWith",
     "itemBool"}

\* the offset of the first byte after item d
EndOf(d) == d.pos + Len(d.val)

\* the offset where the name that starts the input ends: an optional '$' or
\* '.', then the alphanumeric bytes
FirstNameEnd ==
    RunEnd(IF At(0) \in {"$", "."} THEN 1 ELSE 0, AlphaNumeric)

\* the input starts with a name that is directly followed by a byte that
\* is no terminator
StartsWithUnterminatedName ==
    /\ InputLen > 0
    /\ At(0) \in Letter \cup {"_", "$", "."}
    /\ At(0) = "." => (InputLen > 1 /\ At(1) \notin Digit)
    /\ FirstNameEnd < InputLen
    /\ At(FirstNameEnd) \notin TerminatorBytes

\* C16: after an identifier, keyword, field or variable the next byte is a
\* terminator or the end of the input; otherwise the scan stops with ERROR
\* 'bad character' in place of the name: '$x+2' is an error and '$x +2'
\* yields VARIABLE, SPACE, NUMBER.
C16_NameNeedsTerminator ==
    /\ \A k \in DOMAIN tokens :
           tokens[k].typ \in NameTypes =>
               \/ EndOf(tokens[k]) >= InputLen
               \/ At(EndOf(tokens[k])) \in TerminatorBytes
    /\ (Ended /\ StartsWithUnterminatedName) =>
           /\ Len(tokens) - extra = 2
           /\ tokens[1].typ = "itemLeftDelim"
           /\ FinalItem.typ = "itemError"
           /\ FinalItem.val = <<"bad character", At(FirstNameEnd)>>
    /\ (Ended /\ extra = 0 /\ input = <<"$", "x", SP, "+", "2">>) =>
           Types = <<"itemLeftDelim", "itemVariable", "itemSpace",
                     "itemNumber", "itemRightDelim", "itemEOF">>

\* C16 witness: the scan of '$x+2' has ended with an ERROR.
C16_Witness ==
    Ended /\ input = <<"$", "x", "+", "2">> /\ FinalItem.typ = "itemError"

\* C17: after a NUMBER or COMPLEX item the next byte is a terminator or
\* the end of the input: a number followed by any other byte is not
\* returned as a number (the scan reports 'bad number syntax').
C17_NumberNeedsTerminator ==
    \A k \in DOMAIN tokens :
        tokens[k].typ \in {"itemNumber", "itemComplex"} =>
            \/ EndOf(tokens[k]) >= InputLen
            \/ At(EndOf(tokens[k])) \in TerminatorBytes

----------------------------------------------------------------------------
(***************************************************************************)
(* Properties of strings, punctuation and parentheses, checked under Spec  *)
(***************************************************************************)

\* standard backslash escaping: the offset of the first '"' at or after j
\* that is preceded by an even number of consecutive backslashes (esc tells
\* whether the byte at j is escaped), or -1 when an LF or the end of the
\* input comes first
RECURSIVE stdQuoteEnd(_, _)
stdQuoteEnd(j, esc) ==
    IF j >= InputLen THEN -1
    ELSE IF At(j) = LF THEN -1
    ELSE IF esc THEN stdQuoteEnd(j + 1, FALSE)
    ELSE IF At(j) = BSL THEN stdQuoteEnd(j + 1, TRUE)
    ELSE IF At(j) = DQ THEN j
    ELSE stdQuoteEnd(j + 1, FALSE)

\* C18: a double-quoted string follows standard backslash escaping: a
\* STRING item ends at the first '"' preceded by an even number of
\* backslashes, and ERROR 'unterminated quoted string' is returned only
\* when an LF or the end of the input comes before such a quote.
C18_StandardEscapes ==
    \A k \in DOMAIN tokens :
        /\ tokens[k].typ = "itemString" =>
               EndOf(tokens[k]) - 1 = stdQuoteEnd(tokens[k].pos + 1, FALSE)
        /\ (tokens[k].typ = "itemError"
               /\ tokens[k].val = <<"unterminated quoted string">>) =>
               stdQuoteEnd(tokens[k].pos + 1, FALSE) = -1

\* the printable punctuators that start no other production
CharBytes ==
    Punct \ {DQ, SQ, BQ, ".", "$", "|", "=", ":", "(", ")", "+", "-", ";",
             "#"}

\* the backslash at offset q continues the line: only blanks lie between
\* it and the next LF or the end of the input
ContinuationAt(q) ==
    /\ At(q) = BSL
    /\ \/ RunEnd(q + 1, Blank) >= InputLen
       \/ At(RunEnd(q + 1, Blank)) = LF

\* C19: inside an action every printable punctuator that starts no other
\* production is returned as one CHAR item whose literal is that byte,
\* whatever precedes it.  (Stated for the scans that end without ERROR of
\* the inputs that hold no string and no comment, and but for a backslash
\* that continues the line.)
C19_PunctuatorIsChar ==
    (/\ Ended
     /\ \A k \in DOMAIN tokens : tokens[k].typ # "itemError"
     /\ \A q \in 0 .. InputLen - 1 : At(q) \notin {"#", DQ})
    => \A q \in 0 .. InputLen - 1 :
           (At(q) \in CharBytes /\ ~ContinuationAt(q)) =>
               \E k \in DOMAIN tokens :
                   /\ tokens[k].typ = "itemChar"
                   /\ tokens[k].pos = q
                   /\ tokens[k].val = <<At(q)>>

\* the scan has returned ERROR 'unexpected right paren'
UnexpectedRightParen ==
    \E k \in DOMAIN tokens :
        /\ tokens[k].typ = "itemError"
        /\ tokens[k].val = <<"unexpected right paren", ")">>

----------------------------------------------------------------------------
(***************************************************************************)
(* The writing counter of LazyValue (SpecLazy)                             *)
(***************************************************************************)

\* the goroutines between lazy.go:44 and their own lazy.go:51 / lazy.go:53
Holding == {p \in Callers : pc[p] \in {"cas", "create", "creating", "storing",
                                        "decWriter", "decReader"}}

\* the goroutines inside v.Create() or the store of its result (lazy.go:49)
InCreate == {p \in Callers : pc[p] \in {"create", "creating", "storing"}}

\* C30: the writing counter is never negative and equals the number of
\* GetLazyValue calls that have incremented it and not yet decremented it;
\* it is at least 1 while Create runs, and 0 when no call is in progress.
C30_WritingCounts ==
    /\ writing >= 0
    /\ writing = Cardinality(Holding)
    /\ (InCreate # {} => writing >= 1)
    /\ ((\A p \in Callers : pc[p] \in {"idle", "done"}) => writing = 0)

\* Create is running while another call has lost the compare-and-swap and
\* released the counter, and a third is between increment and decrement
C30_Witness ==
    /\ \E p \in Callers : pc[p] = "creating"
    /\ \E p \in Callers : pc[p] = "yield"
    /\ writing >= 2
----------------------------------------------------------------------------
(***************************************************************************)
(* Properties of the parser, checked under SpecParse                       *)
(***************************************************************************)

\* the variable $x is on the scope stack
InScope(v) == \E k \in DOMAIN tvars : tvars[k] = v

\* the list of nodes has an action whose pipeline declares v
Declares(list, v) ==
    \E k \in DOMAIN list :
        /\ list[k].typ = "NodeAction"
        /\ \E d \in DOMAIN list[k].pipe.decl : list[k].pipe.decl[d] = v

\* the index of the innermost open define or block, 0 when none is open
TreeBase ==
    IF \E k \in DOMAIN stack : stack[k].kind \in {"define", "block"}
    THEN CHOOSE k \in DOMAIN stack :
             /\ stack[k].kind \in {"define", "block"}
             /\ \A j \in DOMAIN stack :
                    stack[j].kind \in {"define", "block"} => j <= k
    ELSE 0

\* the list a frame is collecting: its main body or its else branch
ActiveList(f) == IF f.inElse THEN f.elseList ELSE f.list

\* lexical scope, read off the constructs that are open: v is declared by
\* an action of the tree under parse that is not inside a construct already
\* left, or by the pipeline of an open if / with / range whose main body is
\* being read
Visible(v) ==
    \/ IF TreeBase = 0 THEN Declares(Root, v)
       ELSE Declares(stack[TreeBase].list, v)
    \/ \E k \in DOMAIN stack :
           /\ k > TreeBase
           /\ \/ Declares(ActiveList(stack[k]), v)
              \/ /\ ~stack[k].inElse
                 /\ \E d \in DOMAIN stack[k].pipe.decl :
                        stack[k].pipe.decl[d] = v

\* the step reads the source line a
Reads(a) == lastAction' = a /\ consumed' = consumed + 1

\* C21: variable scoping follows a stack.  While a parse runs, $x is in
\* scope exactly when it is declared by an action of the tree under parse
\* outside every construct already left, or by the pipeline of an open
\* with / range / if whose main body is being read: a variable declared in
\* such a pipeline is in scope inside the construct and no longer after its
\* end or else, a top-level declaration stays in scope.  A reference to $x
\* fails with 'undefined variable' when $x is not in scope and is accepted
\* when it is; the bare $ is always accepted.
C21_ScopeStack ==
    /\ [](status = "parsing" => (InScope(<<"$", "x">>) <=> Visible(<<"$", "x">>)))
    /\ [][Reads(Act(<<iVar("x")>>)) =>
              IF InScope(<<"$", "x">>) THEN perr' = <<>>
              ELSE perr' = <<"undefined variable", <<"$", "x">>>>]_vars
    /\ [][Reads(Act(<<iDollar>>)) => perr' = <<>>]_vars

\* C21 witness: a with whose pipeline declared $x has been closed by its
\* end, and $x is out of scope again while the parse goes on
C21_Witness ==
    /\ status = "parsing"
    /\ stack = <<>>
    /\ \E k \in DOMAIN Root :
           /\ Root[k].typ = "NodeWith"
           /\ Root[k].pipe.decl = <<<<"$", "x">>>>
    /\ ~InScope(<<"$", "x">>)

\* the open constructs k > TreeBase that are a range in its main body
OpenRangeBodies ==
    {k \in DOMAIN stack :
        k > TreeBase /\ stack[k].kind = "range" /\ ~stack[k].inElse}

\* the list has a break or continue that is not inside the main body of a
\* range
RECURSIVE Orphan(_)
Orphan(list) ==
    \E k \in DOMAIN list :
        \/ list[k].typ \in {"NodeBreak", "NodeContinue"}
        \/ /\ list[k].typ \in {"NodeIf", "NodeWith"}
           /\ (Orphan(list[k].list) \/ Orphan(list[k].elseList))
        \/ /\ list[k].typ = "NodeRange"
           /\ Orphan(list[k].elseList)

\* the list has a break or a continue at any depth
RECURSIVE HasLoopControl(_)
HasLoopControl(list) ==
    \E k \in DOMAIN list :
        \/ list[k].typ \in {"NodeBreak", "NodeContinue"}
        \/ /\ list[k].typ \in {"NodeIf", "NodeWith", "NodeRange"}
           /\ (HasLoopControl(list[k].list)
               \/ HasLoopControl(list[k].elseList))

\* C22: break and continue are accepted only lexically inside the main
\* body of a range.  While a parse runs the range depth equals the number
\* of open ranges of the tree under parse whose main body is being read
\* (so it is restored when a main body ends); break and continue are
\* accepted when it is positive and are parse errors otherwise: outside any
\* range, after the end of a range, in the else branch of a range; the tree
\* of a successful parse and the trees registered have no break or continue
\* outside the main body of a range.
C22_BreakOnlyInRange ==
    /\ [](status = "parsing" => rangeDepth = Cardinality(OpenRangeBodies))
    /\ [][Reads(Act(<<iBreak>>)) =>
              IF OpenRangeBodies # {} THEN perr' = <<>>
              ELSE perr' = <<"outside range", "break">>]_vars
    /\ [][Reads(Act(<<iContinue>>)) =>
              IF OpenRangeBodies # {} THEN perr' = <<>>
              ELSE perr' = <<"outside range", "continue">>]_vars
    /\ [](status = "done" => ~Orphan(Root))
    /\ [](\A n \in DOMAIN treeSet : ~Orphan(treeSet[n]))

\* C22 witness: a break or continue in the main body of a range was
\* accepted, the range is closed, and the depth is back to zero
C22_Witness ==
    /\ status = "done"
    /\ rangeDepth = 0
    /\ \E k \in DOMAIN Root :
           /\ Root[k].typ = "NodeRange"
           /\ HasLoopControl(Root[k].list)

\* the innermost open construct
Top == stack[Len(stack)]

\* the step completes the tree named n: the end of its define or block is
\* read, or the EOF of the text of the tree handed to Parse
Completes(n) ==
    \/ /\ Reads(Act(<<iEnd>>))
       /\ stack # <<>>
       /\ Top.kind \in {"define", "block"}
       /\ Top.name = n
    \/ /\ status = "parsing"
       /\ lastAction' = <<iEOF>>
       /\ stack = <<>>
       /\ Name = n

\* the names a tree can be given
TreeNames == ParseNames \cup {<<"a">>}

\* C23: template names are unique within a shared tree set.  Over any
\* sequence of define and block declarations, in one parse or in several
\* against the same set, a name that is defined keeps the tree it was
\* defined with; completing a tree whose name is already defined fails with
\* 'multiple definition of template', and completing one whose name is free
\* defines it.
C23_NamesUnique ==
    /\ [][\A n \in DOMAIN treeSet :
              n \in DOMAIN treeSet' /\ treeSet'[n] = treeSet[n]]_vars
    /\ [][\A n \in TreeNames :
              Completes(n) =>
                  IF n \in DOMAIN treeSet
                  THEN perr' = <<"multiple definition of template", n>>
                  ELSE perr' = <<>> /\ n \in DOMAIN treeSet']_vars

\* C23 witness: in the second parse against the set, the definition of a
\* name the first parse has defined has failed
C23_Witness ==
    /\ parses = 2
    /\ status = "failed"
    /\ perr = <<"multiple definition of template", <<"a">>>>
    /\ lastAction = Act(<<iEnd>>)

\* C24: a failed parse does not mutate the registry.  When Parse returns an
\* error, the tree set holds exactly the entries it held before the call,
\* also when an earlier define or block of the same input had been parsed
\* before the error occurred.
C24_FailedParseKeepsSet == status = "failed" => treeSet = setBefore

\* C24, the failing case: a define is parsed and registered, a later line
\* fails, and the tree set has the entry the caller did not hand in
C24_FailedParseMutatedSet ==
    /\ status = "failed"
    /\ <<"a">> \in DOMAIN treeSet
    /\ <<"a">> \notin DOMAIN setBefore

\* the list that encloses the innermost open construct
Enclosing ==
    IF Len(stack) = 1 THEN Root ELSE ActiveList(stack[Len(stack) - 1])

\* the list under construction
Current == IF stack = <<>> THEN Root ELSE ActiveList(Top)

\* every node of the list, at any depth, is a node of the tree named nm
RECURSIVE Owned(_, _)
Owned(list, nm) ==
    \A k \in DOMAIN list :
        /\ list[k].tr = nm
        /\ list[k].typ \in {"NodeIf", "NodeWith", "NodeRange"} =>
               Owned(list[k].list, nm) /\ Owned(list[k].elseList, nm)

\* the calls of the template nm in the list, top level
Calls(list, nm) ==
    {k \in DOMAIN list :
        list[k].typ = "NodeTemplate" /\ list[k].name = nm}

\* C28: a block with a literal name and a pipeline registers its body as a
\* tree under that name in the tree set and leaves, at its position in the
\* enclosing tree, a Template node with the same name and the same
\* pipeline; the enclosing tree has none of the nodes of the body; a block
\* without a pipeline is a parse error.
C28_BlockRegistersAndCalls ==
    /\ [][(Reads(Act(<<iEnd>>)) /\ stack # <<>> /\ Top.kind = "block"
              /\ Top.name \notin DOMAIN treeSet) =>
             /\ perr' = <<>>
             /\ Len(stack') = Len(stack) - 1
             /\ DOMAIN treeSet' = DOMAIN treeSet \cup {Top.name}
             /\ treeSet'[Top.name] = Top.list
             /\ Len(Current') = Len(Enclosing) + 1
             /\ SubSeq(Current', 1, Len(Enclosing)) = Enclosing
             /\ Current'[Len(Current')].typ = "NodeTemplate"
             /\ Current'[Len(Current')].name = Top.name
             /\ Current'[Len(Current')].pipe = Top.pipe
             /\ Top.pipe # NoNode]_vars
    /\ [](status = "done" => Owned(Root, Name))
    /\ [](\A n \in DOMAIN treeSet : Owned(treeSet[n], n))
    /\ [][Reads(Act(<<iBlock, iSpace, iString("a")>>)) =>
             /\ perr' = <<"missing value for", "block clause">>
             /\ treeSet' = treeSet]_vars

\* C28 witness: the tree 'o' is parsed from a block 'a' with a body of one
\* action; the set has the body under 'a', the root of 'o' is the one call
C28_Witness ==
    /\ status = "done"
    /\ Name = <<"o">>
    /\ <<"a">> \in DOMAIN treeSet
    /\ Len(treeSet[<<"a">>]) = 1
    /\ treeSet[<<"a">>][1].typ = "NodeAction"
    /\ Len(Root) = 1
    /\ Calls(Root, <<"a">>) = {1}
    /\ Root[1].pipe.cmds[1].args = <<[typ |-> "NodeDot"]>>

\* the operands that are a bare value
BareValues == {"number", "bool", "string", "char", "nil", "dot"}

\* a command after the first starts with a bare value
bareAfterPipe(cs) == \E k \in 2 .. Len(cs) : cs[k] \in BareValues

\* the declaration d is one the keyword kw admits
declOK(kw, d) ==
    \/ d \in {"none", "one", "assign"}
    \/ d = "two" /\ kw = "range"

\* no operand of the commands cs is an undefined variable, or a function
\* the table has not while the mode md has the table consulted
clean(cs, md) ==
    \A k \in DOMAIN cs :
        /\ cs[k] # "undef"
        /\ cs[k] = "unknown" => "SkipFuncCheck" \in md

\* the step reads a line: l is its shape, keyword, declaration and
\* commands
ReadsShape(l) ==
    /\ consumed' = consumed + 1
    /\ l # <<>>
    /\ lastAction' = LineOf(l[1], l[2], l[3])

\* C25: in a pipeline the first command may be a bare value, but every
\* command after a pipe starts with an identifier, field, chain, variable
\* or parenthesized pipeline; a number, bool, string, char constant, nil or
\* dot in that position fails the parse with 'non executable command in
\* pipeline'.
C25_PipedCommandsExecutable ==
    /\ [][LET l == shape' IN
              (ReadsShape(l) /\ declOK(l[1], l[2]) /\ clean(l[3], Mode)) =>
                  IF bareAfterPipe(l[3])
                  THEN perr' = <<"non executable command in pipeline">>
                  ELSE perr' = <<>>]_vars
    /\ [][LET l == shape' IN
              (ReadsShape(l) /\ bareAfterPipe(l[3])) => status' = "failed"]_vars

\* C25 witness: a string piped into nil has failed as non executable
C25_Witness ==
    /\ status = "failed"
    /\ shape = <<"command", "none", <<"string", "nil">>>>
    /\ lastAction = LineOf("command", "none", <<"string", "nil">>)
    /\ perr = <<"non executable command in pipeline">>

\* the scope stack after the declaration d
declared(d) ==
    CASE d = "none" -> startVars
      [] d \in {"one", "assign"} -> startVars \o <<<<"$", "x">>>>
      [] d = "two" -> startVars \o <<<<"$", "x">>, <<"$", "y">>>>

\* C26: a pipeline may declare at most one variable, except a range
\* pipeline, which may declare at most two: three or more targets fail with
\* 'too many declarations', two targets outside range are a parse error,
\* and a declaration target with a field ($x.Y :=) is a parse error.
C26_DeclarationCount ==
    [][LET l == shape' IN
           ReadsShape(l) =>
               CASE l[2] = "three" ->
                      perr' = <<"too many declarations", l[1]>>
                 [] l[2] = "two" /\ l[1] # "range" -> status' = "failed"
                 [] l[2] = "field" -> status' = "failed"
                 [] OTHER ->
                      (clean(l[3], Mode) /\ ~bareAfterPipe(l[3])) =>
                          perr' = <<>> /\ tvars' = declared(l[2])]_vars

\* C26 witness: a range with three targets has failed
C26_Witness ==
    /\ status = "failed"
    /\ shape = <<"range", "three", <<"dot">>>>
    /\ lastAction = LineOf("range", "three", <<"dot">>)
    /\ perr = <<"too many declarations", "range">>

\* the first operand of cs that can fail by itself is the function the
\* table has not
unknownFirst(cs) ==
    \E k \in DOMAIN cs :
        /\ cs[k] = "unknown"
        /\ \A j \in 1 .. k - 1 : cs[j] # "undef"

itemTypes == [k \in DOMAIN tokens |-> tokens[k].typ]

\* the inputs 1.E, 1 .E and 1.1.E
In1dotE == <<"1", ".", "E">>
In1spdotE == <<"1", SP, ".", "E">>
In11dotE == <<"1", ".", "1", ".", "E">>

\* the lexer has returned its last item
Lexed == nextState = "nil"

\* the parser has read the items
Parsed == status \in {"done", "failed"}

\* '1 .E' yields two arguments, NUMBER then FIELD
TwoArguments ==
    /\ (input = In1spdotE /\ Lexed /\ extra = 0) =>
           /\ itemTypes = <<"itemLeftDelim", "itemNumber", "itemSpace",
                            "itemField", "itemRightDelim", "itemEOF">>
           /\ tokens[2].val = <<"1">>
           /\ tokens[4].val = <<".", "E">>
    /\ (input = In1spdotE /\ Parsed) =>
           /\ perr = <<>>
           /\ Len(Root) = 1
           /\ Root[1].pipe.cmds[1].args =
                  <<[typ |-> "NodeNumber", text |-> <<"1">>],
                    [typ |-> "NodeField", ident |-> <<<<".", "E">>>>]>>

----------------------------------------------------------------------------
(***************************************************************************)
(* The lexer over keywords and the names around them                       *)
(***************************************************************************)

\* words in an input
MaxWords == 2

\* the keywords and the bools, each with the type of its item
KeywordTable ==
    {<<<<"b", "l", "o", "c", "k">>, "itemBlock">>,
     <<<<"b", "r", "e", "a", "k">>, "itemBreak">>,
     <<<<"c", "o", "n", "t", "i", "n", "u", "e">>, "itemContinue">>,
     <<<<"d", "e", "f", "i", "n", "e">>, "itemDefine">>,
     <<<<"e", "l", "s", "e">>, "itemElse">>,
     <<<<"e", "n", "d">>, "itemEnd">>,
     <<<<"i", "f">>, "itemIf">>,
     <<<<"n", "i", "l">>, "itemNil">>,
     <<<<"r", "a", "n", "g", "e">>, "itemRange">>,
     <<<<"t", "e", "m", "p", "l", "a", "t", "e">>, "itemTemplate">>,
     <<<<"w", "i", "t", "h">>, "itemWith">>,
     <<<<"t", "r", "u", "e">>, "itemBool">>,
     <<<<"f", "a", "l", "s", "e">>, "itemBool">>}

KeywordWords == {e[1] : e \in KeywordTable}

\* the words of the inputs: the keywords and bools, each of them with a
\* letter after it and with a letter before it, and 'for'
WordList ==
    KeywordWords
        \cup {Append(w, "s") : w \in KeywordWords}
        \cup {<<"a">> \o w : w \in KeywordWords}
        \cup {<<"f", "o", "r">>}

\* what separates two words
Seps == {<<SP>>, <<",", SP>>}

\* the words ws, sep between two of them
RECURSIVE JoinWords(_, _)
JoinWords(ws, sep) ==
    IF Len(ws) = 1 THEN ws[1]
    ELSE ws[1] \o sep \o JoinWords(Tail(ws), sep)

\* the lexer over every input of 1 .. MaxWords words
InitWords ==
    /\ \E ws \in UNION {[1 .. n -> WordList] : n \in 1 .. MaxWords},
          sep \in Seps :
           lex(JoinWords(ws, sep), FALSE)
    /\ InitLazy
    /\ InitParser

SpecWords == InitWords /\ [][NextLex]_vars

\* the type the claim gives the word w: the keyword's when w is a keyword,
\* BOOL for true and false, IDENTIFIER otherwise
KindOf(w) ==
    IF w \in KeywordWords
    THEN (CHOOSE e \in KeywordTable : e[1] = w)[2]
    ELSE "itemIdentifier"

\* the types of the items of words
WordTypes == {e[2] : e \in KeywordTable} \cup {"itemIdentifier"}

\* the maximal runs of alphanumeric bytes of the input from offset p on, w
\* being the run under way
RECURSIVE WordsFrom(_, _)
WordsFrom(p, w) ==
    IF p >= InputLen THEN (IF w = <<>> THEN <<>> ELSE <<w>>)
    ELSE IF At(p) \in AlphaNumeric THEN WordsFrom(p + 1, Append(w, At(p)))
    ELSE (IF w = <<>> THEN <<>> ELSE <<w>>) \o WordsFrom(p + 1, <<>>)

IsWordItem(d) == d.typ \in WordTypes

\* the texts of the items of words returned so far
WordItems ==
    [k \in DOMAIN SelectSeq(tokens, IsWordItem) |->
        SelectSeq(tokens, IsWordItem)[k].val]

\* C31: keyword classification is exact match.  An identifier equal to
\* block, break, continue, define, else, end, if, nil, range, template or
\* with is returned with the type of that keyword, true and false are
\* returned as BOOL, and every other identifier ('for', or a name that only
\* contains a keyword) is returned as IDENTIFIER; each word of the input is
\* returned whole, as one item.
C31_KeywordExactMatch ==
    /\ \A k \in DOMAIN tokens :
           IsWordItem(tokens[k]) => tokens[k].typ = KindOf(tokens[k].val)
    /\ (Ended /\ extra = 0) =>
           /\ FinalItem.typ = "itemEOF"
           /\ WordItems = WordsFrom(0, <<>>)

\* C31 witness: 'aif if' has been lexed: an IDENTIFIER that contains the
\* keyword, then the keyword
C31_Witness ==
    /\ Ended
    /\ input = <<"a", "i", "f", SP, "i", "f">>
    /\ Types = <<"itemLeftDelim", "itemIdentifier", "itemSpace", "itemIf",
                 "itemRightDelim", "itemEOF">>

----------------------------------------------------------------------------
(***************************************************************************)
(* The lexer over dots, variables, names and numbers                       *)
(***************************************************************************)

\* longest input of dots, variables, names and numbers scanned
MaxDotLen == 6

DotAlphabet == {".", "$", "x", "2", SP, ","}

InitDots ==
    /\ \E inp \in SeqsUpTo(DotAlphabet, MaxDotLen) : lex(inp, FALSE)
    /\ InitLazy
    /\ InitParser

SpecDots == InitDots /\ [][NextLex]_vars

\* the byte at offset p is a terminator, or p is the end of the input
TerminatorAt(p) ==
    p >= InputLen \/ At(p) \in {".", ",", "|", ":", ")", "(", SP, TAB, CR, LF, ";"}

\* the byte at offset p starts a name
NameAt(p) == p < InputLen /\ At(p) \in AlphaNumeric /\ At(p) \notin Digit

\* the items with a text, errors included: the item d is what the lexer
\* has made of the bytes from d.pos on
Scanned ==
    {k \in DOMAIN tokens :
        tokens[k].typ \notin {"itemLeftDelim", "itemRightDelim", "itemEOF",
                              "itemSpace"}}

\* the item is the FIELD or VARIABLE of type typ, with the mark at p and
\* the alphanumeric run after it, or, when no terminator follows the run,
\* the error of the run
NamedItem(d, typ, p) ==
    IF TerminatorAt(RunEnd(p + 1, AlphaNumeric))
    THEN d.typ = typ /\ d.val = Slice(p, RunEnd(p + 1, AlphaNumeric))
    ELSE d.typ = "itemError" /\ d.val[1] = "bad character"

\* what the lexer makes of a '.' at the offset p where an item starts
DotDispatch(d, p) ==
    CASE p + 1 < InputLen /\ At(p + 1) \in Digit ->
           \/ d.typ \in {"itemNumber", "itemComplex"} /\ d.val[1] = "."
           \/ d.typ = "itemError" /\ d.val[1] = "bad number syntax"
      [] TerminatorAt(p + 1) -> d.typ = "itemDot" /\ d.val = <<".">>
      [] NameAt(p + 1) -> NamedItem(d, "itemField", p)
      [] OTHER -> TRUE

\* what the lexer makes of a '$' at the offset p where an item starts
DollarDispatch(d, p) ==
    CASE TerminatorAt(p + 1) -> d.typ = "itemVariable" /\ d.val = <<"$">>
      [] p + 1 < InputLen /\ At(p + 1) \in AlphaNumeric ->
           NamedItem(d, "itemVariable", p)
      [] OTHER -> TRUE

\* a FIELD or VARIABLE item that a dotted segment follows directly is
\* followed by the item of that segment, with no SPACE between them
SegmentsAdjacent ==
    \A k \in DOMAIN tokens :
        (/\ tokens[k].typ \in {"itemField", "itemVariable"}
         /\ k < Len(tokens)
         /\ EndOf(tokens[k]) < InputLen
         /\ At(EndOf(tokens[k])) = ".") =>
            /\ tokens[k + 1].pos = EndOf(tokens[k])
            /\ tokens[k + 1].typ # "itemSpace"
            /\ DotDispatch(tokens[k + 1], EndOf(tokens[k]))

\* C32: dispatch on '.' and '$' inside an action.  '.' followed by a digit
\* starts a NUMBER, '.' followed by a terminator or the end of the input
\* is the DOT keyword, '.' followed by a name is one FIELD item per dotted
\* segment ('.x.y.z' yields three consecutive FIELD items with no SPACE
\* between them), '$' followed by a terminator or the end of the input is
\* the VARIABLE '$', and '$var.Field' yields VARIABLE then FIELD.
C32_DotDollarDispatch ==
    /\ \A k \in Scanned :
           /\ At(tokens[k].pos) = "." =>
                  DotDispatch(tokens[k], tokens[k].pos)
           /\ At(tokens[k].pos) = "$" =>
                  DollarDispatch(tokens[k], tokens[k].pos)
    /\ SegmentsAdjacent
    /\ (Ended /\ extra = 0 /\ input = <<".", "x", ".", "x", ".", "x">>) =>
           Types = <<"itemLeftDelim", "itemField", "itemField", "itemField",
                     "itemRightDelim", "itemEOF">>
    /\ (Ended /\ extra = 0 /\ input = <<"$", "x", ".", "x">>) =>
           Types = <<"itemLeftDelim", "itemVariable", "itemField",
                     "itemRightDelim", "itemEOF">>

\* C32 witness: '.x.x.x' has been lexed into three FIELD items '.x'
C32_Witness ==
    /\ Ended
    /\ extra = 0
    /\ input = <<".", "x", ".", "x", ".", "x">>
    /\ Len(tokens) = 6
    /\ \A k \in 2 .. 4 :
           tokens[k].typ = "itemField" /\ tokens[k].val = <<".", "x">>
                /\ tokens[k].pos = 2 * (k - 2)

----------------------------------------------------------------------------
(***************************************************************************)
(* The lexer over numbers and signs                                        *)
(***************************************************************************)

\* longest input of numbers and signs scanned
MaxSignLen == 5

SignAlphabet == {"2", "i", "+", "x", SP, ","}

InitSigns ==
    /\ \E inp \in SeqsUpTo(SignAlphabet, MaxSignLen) : lex(inp, FALSE)
    /\ InitLazy
    /\ InitParser

SpecSigns == InitSigns /\ [][NextLex]_vars

\* the item is the error 'bad number syntax'
BadNumber(d) == d.typ = "itemError" /\ d.val[1] = "bad number syntax"

\* the text has a sign after its first byte
InnerSign(v) == \E j \in 2 .. Len(v) : v[j] \in {"+", "-"}

\* the byte after the item d is a sign
SignAfter(d) == EndOf(d) < InputLen /\ At(EndOf(d)) \in {"+", "-"}

\* the byte after the item d is alphanumeric
AlnumAfter(d) == EndOf(d) < InputLen /\ At(EndOf(d)) \in AlphaNumeric

\* the items that start at a digit or at a sign
NumberStarts ==
    {k \in Scanned : At(tokens[k].pos) \in Digit \cup {"+", "-"}}

----------------------------------------------------------------------------
(***************************************************************************)
(* Semicolons                                                              *)
(***************************************************************************)

\* the first offset from p on whose byte is not in the set skip, or the
\* length of the input
RECURSIVE SkipFrom(_, _)
SkipFrom(p, skip) ==
    IF p < InputLen /\ At(p) \in skip THEN SkipFrom(p + 1, skip) ELSE p

\* the step has returned exactly one item, of the type typ
ReturnsOne(typ) ==
    /\ tokens' = Append(tokens, tokens'[Len(tokens')])
    /\ tokens'[Len(tokens')].typ = typ

\* a state function inside an action meets a ';', directly or after blanks
SemiInsideAction ==
    LET q == SkipFrom(pos, Blank)
    IN  (/\ nextState \in {"lexInsideAction", "lexInActionSpace"}
         /\ q < InputLen
         /\ At(q) = ";") =>
            /\ ReturnsOne("itemRightDelim")
            /\ nextState' = "lexWhitespace"
            /\ pos' = q + 1

\* lexWhitespace meets a ';': an empty action starts at it
SemiInWhitespace ==
    LET q == SkipFrom(pos, Blank \cup {LF})
    IN  (/\ nextState = "lexWhitespace"
         /\ q < InputLen
         /\ At(q) = ";") =>
            /\ ReturnsOne("itemLeftDelim")
            /\ nextState' = "lexInsideAction"
            /\ pos' = q

\* the actions without an item between their delimiters
EmptyActions ==
    {k \in 1 .. Len(tokens) - 1 :
        /\ tokens[k].typ = "itemLeftDelim"
        /\ tokens[k + 1].typ = "itemRightDelim"}

\* the input is one token and then semicolons only
TokenThenSemis ==
    /\ InputLen >= 2
    /\ input[1] = "a"
    /\ \A j \in 2 .. InputLen : input[j] = ";"

\* the item types of n empty actions
RECURSIVE EmptyTypes(_)
EmptyTypes(n) ==
    IF n = 0 THEN <<>>
    ELSE <<"itemLeftDelim", "itemRightDelim">> \o EmptyTypes(n - 1)

\* C34: each ';' met inside an action (directly after a token or after
\* whitespace) emits exactly one RIGHT_DELIM and returns to the whitespace
\* state, and each ';' met in the whitespace state produces an empty
\* action, LEFT_DELIM immediately followed by RIGHT_DELIM; so a run of n
\* semicolons directly after an action's last token yields exactly n-1
\* empty actions.
C34_SemicolonActions ==
    /\ [][SemiInsideAction /\ SemiInWhitespace]_vars
    /\ [](\A k \in DOMAIN tokens :
             (/\ tokens[k].typ = "itemLeftDelim"
              /\ tokens[k].pos < InputLen
              /\ At(tokens[k].pos) = ";"
              /\ k < Len(tokens)) =>
                 /\ tokens[k + 1].typ = "itemRightDelim"
                 /\ tokens[k + 1].pos = tokens[k].pos + 1)
    /\ []((Ended /\ extra = 0 /\ TokenThenSemis) =>
             /\ Types = <<"itemLeftDelim", "itemIdentifier",
                          "itemRightDelim">>
                        \o EmptyTypes(InputLen - 2) \o <<"itemEOF">>
             /\ Cardinality(EmptyActions) = InputLen - 2)

\* C34 witness: 'a;;;' has been lexed, with two empty actions
C34_Witness ==
    /\ Ended
    /\ extra = 0
    /\ input = <<"a", ";", ";", ";">>
    /\ Cardinality(EmptyActions) = 2

----------------------------------------------------------------------------
(***************************************************************************)
(* SPACE items                                                             *)
(***************************************************************************)

\* the items that are directly followed by another item
Followed == {k \in DOMAIN tokens : k < Len(tokens)}

\* no SPACE directly after LEFT_DELIM or after another SPACE
NoSpaceAfterDelimOrSpace ==
    \A k \in Followed :
        tokens[k + 1].typ = "itemSpace" =>
            tokens[k].typ \notin {"itemLeftDelim", "itemSpace"}

\* no SPACE directly before RIGHT_DELIM
NoSpaceBeforeRightDelim ==
    \A k \in Followed :
        tokens[k].typ = "itemSpace" => tokens[k + 1].typ # "itemRightDelim"

\* C35: a run of space/tab/CR between two tokens of the same
\* action yields exactly one SPACE item: a SPACE never directly follows
\* LEFT_DELIM or another SPACE, and never directly precedes RIGHT_DELIM.
C35_OneSpacePerRun ==
    /\ NoSpaceAfterDelimOrSpace
    /\ NoSpaceBeforeRightDelim

----------------------------------------------------------------------------
(***************************************************************************)
(* Position bookkeeping                                                    *)
(***************************************************************************)

\* lex.go:134-140  start and pos delimit a part of the input
Delimits == 0 <= start /\ start <= pos /\ pos <= InputLen

\* the literal of the item is the text of the input at the item's position
LiteralAtPos(d) ==
    /\ 0 <= d.pos
    /\ EndOf(d) <= InputLen
    /\ d.val = Slice(d.pos, EndOf(d))

\* the items start in order and do not overlap
InOrder ==
    \A k \in DOMAIN tokens :
        k < Len(tokens) =>
            /\ tokens[k].pos <= tokens[k + 1].pos
            /\ tokens[k].typ # "itemError" =>
                   EndOf(tokens[k]) <= tokens[k + 1].pos

\* C36: after every state-function step 0 <= start <= pos <= len(input);
\* every returned item other than ERROR has as literal the text of the
\* input from its own position on; and the start positions of the items
\* returned one after the other never decrease, no two items overlapping.
C36_PositionBookkeeping ==
    /\ Delimits
    /\ \A k \in DOMAIN tokens :
           tokens[k].typ # "itemError" => LiteralAtPos(tokens[k])
    /\ InOrder

\* C36 witness: a scan has ended without error after an identifier and a
\* later comment; the comment's literal is the input's text after the '#'
C36_Witness ==
    /\ Ended
    /\ FinalItem.typ = "itemEOF"
    /\ \E j, k \in DOMAIN tokens :
           /\ j < k
           /\ tokens[j].typ = "itemIdentifier"
           /\ tokens[k].typ = "itemComment"
           /\ EndOf(tokens[j]) < tokens[k].pos
           /\ Len(tokens[k].val) > 0
           /\ At(tokens[k].pos - 1) = "#"

----------------------------------------------------------------------------
(***************************************************************************)
(* The EOF item                                                            *)
(***************************************************************************)

\* C37: the first EOF item is returned only when the whole input has been
\* consumed: for every input that produces no ERROR, the inputs that end in
\* whitespace or newlines included, its position is len(input) and its
\* literal is empty.
C37_EOFAtEndOfInput ==
    (Ended /\ FinalItem.typ = "itemEOF") =>
        /\ FinalItem.pos = InputLen
        /\ FinalItem.val = <<>>

----------------------------------------------------------------------------
(***************************************************************************)
(* LazyValue with callers that call again and a Create that may not return *)
(***************************************************************************)

\* lazy.go:43  the goroutine calls GetLazyValue again after a call returned
Restart(p) ==
    /\ pc[p] = "done"
    /\ pc' = [pc EXCEPT ![p] = "idle"]
    /\ UNCHANGED <<initialized, writing, value, called, won, result>>
    /\ UNCHANGED <<lexVars, parseVars>>

\* lazy.go:49  Create blocks for ever
CreateBlocks(p) ==
    /\ pc[p] = "creating"
    /\ pc' = [pc EXCEPT ![p] = "blocked"]
    /\ UNCHANGED <<initialized, writing, value, called, won, result>>
    /\ UNCHANGED <<lexVars, parseVars>>

\* lazy.go:49  Create panics: the call is left without lines 49-51 and 61
CreatePanics(p) ==
    /\ pc[p] = "creating"
    /\ pc' = [pc EXCEPT ![p] = "panicked"]
    /\ UNCHANGED <<initialized, writing, value, called, won, result>>
    /\ UNCHANGED <<lexVars, parseVars>>

\* lazy.go:49,44  Create calls GetLazyValue on the same LazyValue
NestedEnter(p) ==
    /\ pc[p] = "creating"
    /\ writing' = writing + 1
    /\ pc' = [pc EXCEPT ![p] = "nestedCas"]
    /\ UNCHANGED <<initialized, value, called, won, result>>
    /\ UNCHANGED <<lexVars, parseVars>>

\* lazy.go:46  the compare-and-swap of the nested call
NestedCompareAndSwap(p) ==
    /\ pc[p] = "nestedCas"
    /\ IF initialized = 0
       THEN /\ initialized' = 1
            /\ pc' = [pc EXCEPT ![p] = "create"]
       ELSE /\ initialized' = initialized
            /\ pc' = [pc EXCEPT ![p] = "nestedDec"]
    /\ UNCHANGED <<writing, value, called, won, result>>
    /\ UNCHANGED <<lexVars, parseVars>>

\* lazy.go:53  the nested call is a reader
NestedDecReader(p) ==
    /\ pc[p] = "nestedDec"
    /\ writing' = writing - 1
    /\ pc' = [pc EXCEPT ![p] = "nestedSpin"]
    /\ UNCHANGED <<initialized, value, called, won, result>>
    /\ UNCHANGED <<lexVars, parseVars>>

\* lazy.go:56  the spin loop of the nested call
NestedSpinLoad(p) ==
    /\ pc[p] = "nestedSpin"
    /\ pc' = [pc EXCEPT ![p] = IF writing # 0 THEN "nestedYield"
                                ELSE "creating"]
    /\ UNCHANGED <<initialized, writing, value, called, won, result>>
    /\ UNCHANGED <<lexVars, parseVars>>

\* lazy.go:57  runtime.Gosched() of the nested call
NestedGosched(p) ==
    /\ pc[p] = "nestedYield"
    /\ pc' = [pc EXCEPT ![p] = "nestedSpin"]
    /\ UNCHANGED <<initialized, writing, value, called, won, result>>
    /\ UNCHANGED <<lexVars, parseVars>>

\* the steps of a Create that does not return
CreateStuck(p) ==
    \/ CreateBlocks(p)
    \/ CreatePanics(p)
    \/ NestedEnter(p)
    \/ NestedCompareAndSwap(p)
    \/ NestedDecReader(p)
    \/ NestedSpinLoad(p)
    \/ NestedGosched(p)

NextOpen ==
    \E p \in Callers : Enter(p) \/ Proceed(p) \/ Restart(p) \/ CreateStuck(p)

SpecLazyOpen == InitLazyOnly /\ [][NextOpen]_vars

\* every goroutine is scheduled again and again, whatever its next step is
SpecLazyOpenFair ==
    /\ SpecLazyOpen
    /\ \A p \in Callers :
           WF_vars(Enter(p) \/ Proceed(p) \/ Restart(p) \/ CreateStuck(p))

\* Create has returned and its value has been stored
CreateCompleted == value = testdata

\* C38: a GetLazyValue call is not starved by other callers: after Create
\* has completed, a losing call that is spinning eventually observes
\* writing = 0 and returns, under weak fairness of every goroutine, even
\* when the other goroutines keep starting new calls without bound.
C38_SpinnerNotStarved ==
    \A p \in Callers :
        (CreateCompleted /\ pc[p] \in {"spin", "yield"}) ~> (pc[p] = "done")


\* the goroutine w is inside a Create that does not return: it blocks, it
\* has panicked, or it is inside a nested GetLazyValue
NeverCompletes(w) ==
    pc[w] \in {"blocked", "panicked", "nestedCas", "nestedDec", "nestedSpin",
               "nestedYield"}

CreateIsStuck == \E w \in Callers : NeverCompletes(w)

\* C39: if the winning caller's Create never completes (it blocks, panics
\* or re-enters GetLazyValue on the same LazyValue) the state is stuck:
\* initialized stays 1, writing stays >= 1, no other caller ever runs
\* Create again, and no GetLazyValue call on that LazyValue ever returns.
C39_StuckForEver ==
    /\ [](CreateIsStuck =>
             /\ initialized = 1
             /\ writing >= 1
             /\ called = 1
             /\ \A p \in Callers : pc[p] \notin {"ret", "done"}
             /\ \A p \in Callers : result[p] = "none")
    /\ [][\A w \in Callers :
             NeverCompletes(w) =>
                 /\ NeverCompletes(w)'
                 /\ called' = called
                 /\ initialized' = initialized]_vars

\* C39 witness: the winner is spinning inside its nested call while a
\* loser yields
C39_Witness ==
    \E w, p \in Callers :
        /\ pc[w] = "nestedYield"
        /\ pc[p] = "yield"
        /\ writing = 1

====
